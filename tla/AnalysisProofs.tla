--------------------------- MODULE AnalysisProofs ---------------------------
(***************************************************************************)
(* Proofs about the AI analysis.                                           *)
(*                                                                         *)
(* About Triage, for any chains, cycles and size of the mirror: no cycle   *)
(* settles for an analysis of other evidence, and the results index shows  *)
(* what the mirror does but for the writes that were lost.                 *)
(*                                                                         *)
(* About Reasoner, for any pieces of text, evidence and patterns: what is  *)
(* sent shows no known value, and an answer is read back in the words of   *)
(* the evidence.  Texts are compared by where one occurs in another; what  *)
(* holds of every text, or of every list of tokens, is proved for the      *)
(* smallest that would contradict it.                                      *)
(***************************************************************************)
EXTENDS Triage, Reasoner, SequenceTheorems, FiniteSetTheorems, WellFoundedInduction, TLAPS

Statuses == {"none", "pending", "triaged", "ai_unavailable"}
Docs ==
  [chain : Investigated \cup {0}, facts : Nat, analysed : Nat, claimed : Nat, status : Statuses,
   stale : BOOLEAN]
Prints == {<<>>} \cup (BOOLEAN \X {"local", "cloud"} \X Nat)
Calls ==
  [at : {"idle", "health", "context", "model", "write"}, chain : Investigated \cup {0},
   left : SUBSET Investigated, stamp : Nat, print : Prints, doc : Docs]

----------------------------------------------------------------------------
\* The mirror: documents of different chains, at most Room of them.

Distinct(s) == \A i, j \in DOMAIN s : s[i].chain = s[j].chain => i = j
Within(s, t) == \A j \in DOMAIN s : \E i \in DOMAIN t : s[j] = t[i]

\* Past the first, two sequences in a row are the second.
LEMMA SecondOfTwo ==
  ASSUME NEW p \in Seq(Docs), NEW q \in Seq(Docs), NEW j \in Len(p) + 1 .. Len(p) + Len(q)
  PROVE  (p \o q)[j] = q[j - Len(p)]
  OBVIOUS

LEMMA Removal ==
  ASSUME NEW s \in Seq(Docs), NEW k \in DOMAIN s
  PROVE  /\ RemoveAt(s, k) \in Seq(Docs) /\ Len(RemoveAt(s, k)) = Len(s) - 1
         /\ \A j \in 1..(Len(s) - 1) : RemoveAt(s, k)[j] = IF j < k THEN s[j] ELSE s[j + 1]
<1> DEFINE a == SubSeq(s, 1, k - 1)
           b == SubSeq(s, k + 1, Len(s))
<1>1. k \in 1..Len(s) /\ Len(s) \in Nat
  OBVIOUS
<1>2. a \in Seq(Docs) /\ Len(a) = k - 1 /\ \A i \in 1..(k - 1) : a[i] = s[i]
  BY <1>1
<1>3. b \in Seq(Docs) /\ Len(b) = Len(s) - k /\ \A i \in 1..(Len(s) - k) : b[i] = s[k + i]
  BY <1>1
<1> HIDE DEF a, b
<1>4. a \o b \in Seq(Docs) /\ Len(a \o b) = Len(s) - 1
  BY <1>1, <1>2, <1>3
<1>5. ASSUME NEW j \in 1..(Len(s) - 1)
      PROVE  (a \o b)[j] = IF j < k THEN s[j] ELSE s[j + 1]
  <2>1. CASE j < k
    BY <1>1, <1>2, <1>3, <2>1
  <2>2. CASE ~(j < k)
    <3>1. (a \o b)[j] = b[j - (k - 1)]
      <4>1. Len(a) \in Nat /\ Len(b) \in Nat /\ j \in Len(a) + 1 .. Len(a) + Len(b)
        BY <1>1, <1>2, <1>3, <2>2
      <4>2. (a \o b)[j] = b[j - Len(a)]
        BY <1>2, <1>3, <4>1, SecondOfTwo
      <4> QED
        BY <1>2, <4>2
    <3>2. j - (k - 1) \in 1..(Len(s) - k) /\ k + (j - (k - 1)) = j + 1
      BY <1>1, <2>2
    <3> QED
      BY <1>3, <2>2, <3>1, <3>2
  <2> QED
    BY <2>1, <2>2
<1>6. RemoveAt(s, k) = a \o b
  BY DEF RemoveAt, a, b
<1> QED
  BY <1>4, <1>5, <1>6

LEMMA Popping ==
  ASSUME mirror \in Seq(Docs), Distinct(mirror), NEW c
  PROVE  /\ Popped(c) \in Seq(Docs) /\ Distinct(Popped(c)) /\ Within(Popped(c), mirror)
         /\ \A j \in DOMAIN Popped(c) : Popped(c)[j].chain # c
<1>1. CASE \E i \in DOMAIN mirror : mirror[i].chain = c
  <2> DEFINE k == CHOOSE i \in DOMAIN mirror : mirror[i].chain = c
             t == RemoveAt(mirror, k)
             From(j) == IF j < k THEN j ELSE j + 1
  <2>1. k \in DOMAIN mirror /\ mirror[k].chain = c
    BY <1>1
  <2>2. Popped(c) = t
    BY <1>1 DEF Popped
  <2> HIDE DEF k
  <2>3. t \in Seq(Docs) /\ Len(t) = Len(mirror) - 1
        /\ \A j \in 1..(Len(mirror) - 1) : t[j] = IF j < k THEN mirror[j] ELSE mirror[j + 1]
    BY <2>1, Removal
  <2> HIDE DEF t
  <2>4. ASSUME NEW j \in DOMAIN t
        PROVE  From(j) \in DOMAIN mirror /\ From(j) # k /\ t[j] = mirror[From(j)]
    <3>1. j \in 1..(Len(mirror) - 1) /\ k \in 1..Len(mirror) /\ Len(mirror) \in Nat
      BY <2>1, <2>3
    <3> QED
      BY <2>3, <3>1
  <2>5. \A i, j \in DOMAIN t : From(i) = From(j) => i = j
    <3>1. k \in Int /\ DOMAIN t \subseteq Int
      BY <2>1, <2>3
    <3> QED
      BY <3>1
  <2> HIDE DEF From
  <2>6. Distinct(t)
    BY <2>4, <2>5 DEF Distinct
  <2>7. Within(t, mirror)
    BY <2>4 DEF Within
  <2>8. \A j \in DOMAIN t : t[j].chain # c
    BY <2>1, <2>4 DEF Distinct
  <2> QED
    BY <2>2, <2>3, <2>6, <2>7, <2>8
<1>2. CASE ~ \E i \in DOMAIN mirror : mirror[i].chain = c
  BY <1>2 DEF Popped, Within
<1> QED
  BY <1>1, <1>2

LEMMA Bounding ==
  ASSUME NEW s \in Seq(Docs), Distinct(s)
  PROVE  /\ Bounded(s) \in Seq(Docs) /\ Distinct(Bounded(s)) /\ Within(Bounded(s), s)
         /\ Len(Bounded(s)) <= Room
<1>1. Room \in Nat /\ Len(s) \in Nat
  BY TriageAssumption
<1>2. CASE Len(s) > Room
  <2> DEFINE k == Len(s) - Room
             t == SubSeq(s, k + 1, Len(s))
  <2>1. Bounded(s) = t
    BY <1>2 DEF Bounded
  <2>2. t \in Seq(Docs) /\ Len(t) = Room
    BY <1>1, <1>2
  <2>3. ASSUME NEW j \in DOMAIN t PROVE k + j \in DOMAIN s /\ t[j] = s[k + j]
    BY <1>1, <1>2, <2>2
  <2>4. \A i, j \in DOMAIN t : k + i = k + j => i = j
    BY <1>1, <2>2
  <2> HIDE DEF t, k
  <2>5. Distinct(t)
    BY <2>3, <2>4 DEF Distinct
  <2>6. Within(t, s)
    BY <2>3 DEF Within
  <2> QED
    BY <1>1, <2>1, <2>2, <2>5, <2>6
<1>3. CASE ~(Len(s) > Room)
  BY <1>1, <1>3 DEF Bounded, Within
<1> QED
  BY <1>2, <1>3

\* Storing a document: the mirror after it holds it and documents of other
\* chains that were there, each with the fingerprint it had.
LEMMA Storing ==
  ASSUME mirror \in Seq(Docs), Distinct(mirror), NEW doc \in Docs, NEW print,
         doc.chain \in Investigated, StoreResult(doc, print)
  PROVE  /\ mirror' \in Seq(Docs) /\ Distinct(mirror') /\ Len(mirror') <= Room
         /\ \A j \in DOMAIN mirror' :
              \/ mirror'[j] = doc
              \/ mirror'[j].chain # doc.chain /\ \E i \in DOMAIN mirror : mirror'[j] = mirror[i]
         /\ prints' = [c \in Investigated |->
                         IF c = doc.chain THEN print
                         ELSE IF \E i \in DOMAIN mirror' : mirror'[i].chain = c THEN prints[c]
                         ELSE <<>>]
<1> DEFINE p == Popped(doc.chain)
           a == Append(p, doc)
<1>1. /\ p \in Seq(Docs) /\ Distinct(p) /\ Within(p, mirror)
      /\ \A j \in DOMAIN p : p[j].chain # doc.chain
  BY Popping
<1>2. mirror' = Bounded(a)
  BY DEF StoreResult
<1> HIDE DEF p
<1>3. /\ a \in Seq(Docs) /\ Len(a) = Len(p) + 1 /\ a[Len(p) + 1] = doc
      /\ \A j \in DOMAIN p : a[j] = p[j]
      /\ DOMAIN a = DOMAIN p \cup {Len(p) + 1}
  BY <1>1
<1> HIDE DEF a
<1>4. Distinct(a)
  BY <1>1, <1>3 DEF Distinct
<1>5. \A j \in DOMAIN a :
        \/ a[j] = doc
        \/ a[j].chain # doc.chain /\ \E i \in DOMAIN mirror : a[j] = mirror[i]
  BY <1>1, <1>3 DEF Within
<1>6. Bounded(a) \in Seq(Docs) /\ Distinct(Bounded(a)) /\ Within(Bounded(a), a)
      /\ Len(Bounded(a)) <= Room
  BY <1>3, <1>4, Bounding
<1>7. \A j \in DOMAIN mirror' :
        \/ mirror'[j] = doc
        \/ mirror'[j].chain # doc.chain /\ \E i \in DOMAIN mirror : mirror'[j] = mirror[i]
  BY <1>2, <1>5, <1>6 DEF Within
<1> QED
  BY <1>2, <1>6, <1>7 DEF StoreResult

----------------------------------------------------------------------------
\* The inductive invariant.

Types ==
  /\ scope \in {"all", "surfaced"} /\ writing \in BOOLEAN
  /\ evidence \in [Investigated -> Nat] /\ surfaced \subseteq Investigated
  /\ model \in {"local", "cloud"} /\ reachable \in BOOLEAN
  /\ mirror \in Seq(Docs) /\ prints \in [Investigated -> Prints]
  /\ index \in [Investigated -> Docs] /\ call \in [Callers -> Calls]
  /\ missed \subseteq Investigated /\ turns \in Nat

\* A document made for a fingerprint of the evidence n shows evidence from n
\* on, and its analysis is of such evidence or marked.
Based(d, n) ==
  /\ n \in Nat /\ n <= d.facts /\ d.facts <= evidence[d.chain]
  /\ d.analysed = 0 \/ d.stale \/ (n <= d.analysed /\ d.analysed <= evidence[d.chain])

Basis(d, print) == print # <<>> /\ Based(d, print[3])

MirrorInv ==
  /\ Distinct(mirror) /\ Len(mirror) <= Room
  /\ \A i \in DOMAIN mirror :
       mirror[i].chain \in Investigated /\ Basis(mirror[i], prints[mirror[i].chain])

\* A caller's stamp is of the evidence at or before now, and so is the document
\* it prepares.
Stamped(k) ==
  /\ k.chain \in Investigated
  /\ k.print # <<>> /\ k.print[3] = k.stamp /\ k.stamp <= evidence[k.chain]
Engaged(k) ==
  /\ Stamped(k)
  /\ k.at # "health" => k.doc.chain = k.chain
  /\ k.at \in {"context", "model"} => Based(k.doc, k.stamp)

CallInv == \A w \in Callers : call[w].at # "idle" => Engaged(call[w])

\* Of a chain whose writes were not lost, the document in the mirror is on its
\* way to the index, or is there and nothing older is on its way.
Writes(w, c) == call[w].at = "write" /\ call[w].chain = c
OnItsWay(c, d) == \E w \in Callers : Writes(w, c) /\ call[w].doc = d
Arrived(c, d) == index[c] = d /\ \A w \in Callers : ~Writes(w, c)
IndexInv ==
  writing => \A i \in DOMAIN mirror :
    \/ mirror[i].chain \in missed
    \/ OnItsWay(mirror[i].chain, mirror[i]) \/ Arrived(mirror[i].chain, mirror[i])

TriageInv == Types /\ MirrorInv /\ CallInv /\ IndexInv

----------------------------------------------------------------------------
\* The steps, by what they do.

LEMMA Nothing == Idle \in Calls /\ Idle.at = "idle" /\ NoDoc \in Docs
  BY DEF Idle, Calls, NoDoc, Docs, Statuses, Prints

LEMMA GoingOn ==
  ASSUME NEW k \in Calls
  PROVE  Over(k) \in Calls /\ Over(k).at = "idle"
  BY Nothing DEF Over, Idle, Calls

\* A caller goes on without storing anything.
Advances(w, k) ==
  /\ Goes(w, k) /\ k \in Calls /\ call[w].at # "write" /\ k.at # "write"
  /\ k.at # "idle" => Engaged(k)

LEMMA Advancing ==
  ASSUME TriageInv, NEW w \in Callers, NEW k, Advances(w, k),
         UNCHANGED results, UNCHANGED world, turns' \in Nat
  PROVE  TriageInv'
<1> USE DEF TriageInv
<1>1. call' = [call EXCEPT ![w] = k] /\ k \in Calls /\ call \in [Callers -> Calls]
  BY DEF Advances, Goes, Types
<1>2. Types'
  BY <1>1 DEF Types, results, world
<1>3. MirrorInv'
  BY DEF MirrorInv, Basis, Based, results, world
<1>4. ASSUME NEW v \in Callers, call'[v].at # "idle" PROVE Engaged(call[v])'
  <2>1. CASE v = w
    BY <1>1, <1>4, <2>1 DEF Advances, Engaged, Stamped, Based, world
  <2>2. CASE v # w
    BY <1>1, <1>4, <2>2 DEF CallInv, Engaged, Stamped, Based, world
  <2> QED
    BY <2>1, <2>2
<1>5. CallInv'
  BY <1>4 DEF CallInv
<1>6. \A v \in Callers : \A c : /\ Writes(v, c)' <=> Writes(v, c)
                                /\ Writes(v, c) => call'[v] = call[v]
  BY <1>1 DEF Writes, Advances
<1>7. IndexInv'
  BY <1>6 DEF IndexInv, OnItsWay, Arrived, results, world
<1> QED
  BY <1>2, <1>3, <1>5, <1>7

\* A caller stores its document and writes it back or goes on.
LEMMA StoringStep ==
  ASSUME TriageInv, NEW w \in Callers, NEW k \in Calls, NEW doc \in Docs, NEW print \in Prints,
         Stored(w, k, doc, print), call[w].at # "write", Stamped(k), k.print = print,
         doc.chain = k.chain, Basis(doc, print), UNCHANGED world, UNCHANGED turns
  PROVE  TriageInv'
<1> USE DEF TriageInv
<1> DEFINE next == IF writing THEN [k EXCEPT !.at = "write", !.doc = doc] ELSE Over(k)
<1>1. call' = [call EXCEPT ![w] = next] /\ call \in [Callers -> Calls]
  BY DEF Stored, Goes, Types
<1>2. next \in Calls
  BY GoingOn DEF Calls
<1>3. /\ mirror' \in Seq(Docs) /\ Distinct(mirror') /\ Len(mirror') <= Room
      /\ \A j \in DOMAIN mirror' :
           \/ mirror'[j] = doc
           \/ mirror'[j].chain # doc.chain /\ \E i \in DOMAIN mirror : mirror'[j] = mirror[i]
      /\ prints' = [c \in Investigated |->
                      IF c = doc.chain THEN print
                      ELSE IF \E i \in DOMAIN mirror' : mirror'[i].chain = c THEN prints[c]
                      ELSE <<>>]
  BY Storing DEF Stored, MirrorInv, Types, Engaged, Stamped
<1>4. doc.chain \in Investigated /\ <<>> \in Prints
  BY DEF Engaged, Stamped, Prints
<1>5. Types'
  BY <1>1, <1>2, <1>3, <1>4 DEF Types, Stored, world
<1>6. ASSUME NEW j \in DOMAIN mirror'
      PROVE  mirror'[j].chain \in Investigated /\ Basis(mirror'[j], prints'[mirror'[j].chain])
  <2>1. CASE mirror'[j] = doc
    BY <1>3, <1>4, <2>1
  <2>2. CASE mirror'[j].chain # doc.chain /\ \E i \in DOMAIN mirror : mirror'[j] = mirror[i]
    <3>1. PICK i \in DOMAIN mirror : mirror'[j] = mirror[i]
      BY <2>2
    <3>2. mirror[i].chain \in Investigated /\ Basis(mirror[i], prints[mirror[i].chain])
      BY DEF MirrorInv
    <3>3. prints'[mirror'[j].chain] = prints[mirror'[j].chain]
      BY <1>3, <2>2, <3>1, <3>2
    <3> QED
      BY <3>1, <3>2, <3>3
  <2> QED
    BY <1>3, <2>1, <2>2
<1>7. MirrorInv'
  <2>1. \A j \in DOMAIN mirror' : Basis(mirror'[j], prints'[mirror'[j].chain])
                                  => Basis(mirror[j], prints[mirror[j].chain])'
    BY DEF Basis, Based, world
  <2> QED
    BY <1>3, <1>6, <2>1 DEF MirrorInv
<1>8. ASSUME NEW v \in Callers, call'[v].at # "idle" PROVE Engaged(call[v])'
  <2>1. CASE v = w
    <3>1. writing /\ call'[v] = [k EXCEPT !.at = "write", !.doc = doc]
      BY <1>1, <1>8, <2>1, GoingOn
    <3>2. /\ call'[v].at = "write" /\ call'[v].doc = doc /\ call'[v].chain = k.chain
          /\ call'[v].print = k.print /\ call'[v].stamp = k.stamp
      BY <3>1 DEF Calls
    <3> QED
      BY <3>2 DEF Engaged, Stamped, world
  <2>2. CASE v # w
    BY <1>1, <1>8, <2>2 DEF CallInv, Engaged, Stamped, Based, world
  <2> QED
    BY <2>1, <2>2
<1>9. CallInv'
  BY <1>8 DEF CallInv
<1>10. ASSUME writing, NEW j \in DOMAIN mirror'
       PROVE  (\/ mirror[j].chain \in missed
               \/ OnItsWay(mirror[j].chain, mirror[j]) \/ Arrived(mirror[j].chain, mirror[j]))'
  <2>1. call'[w].at = "write" /\ call'[w].chain = doc.chain /\ call'[w].doc = doc
    BY <1>1, <1>10 DEF Calls
  <2>2. CASE mirror'[j] = doc
    BY <2>1, <2>2 DEF OnItsWay, Writes
  <2>3. CASE mirror'[j].chain # doc.chain /\ \E i \in DOMAIN mirror : mirror'[j] = mirror[i]
    <3>1. PICK i \in DOMAIN mirror : \E d : d = mirror[i] /\ mirror'[j] = d
      BY <2>3
    <3>2. PICK d : d = mirror[i] /\ mirror'[j] = d
      BY <3>1
    <3>3. d.chain \in missed \/ OnItsWay(d.chain, d) \/ Arrived(d.chain, d)
      BY <1>10, <3>1, <3>2 DEF IndexInv
    <3>4. \A v \in Callers : /\ Writes(v, d.chain)' <=> Writes(v, d.chain)
                             /\ Writes(v, d.chain) => call'[v] = call[v]
      BY <1>1, <2>1, <2>3, <3>1, <3>2 DEF Writes
    <3>5. (d.chain \in missed \/ OnItsWay(d.chain, d) \/ Arrived(d.chain, d))'
      BY <3>3, <3>4 DEF OnItsWay, Arrived, Stored
    <3> QED
      BY <3>2, <3>5
  <2> QED
    BY <1>3, <2>2, <2>3
<1>11. IndexInv'
  BY <1>10 DEF IndexInv, world
<1> QED
  BY <1>5, <1>7, <1>9, <1>11

\* A caller writes its document to the index, or fails to.
LEMMA WritingBack ==
  ASSUME TriageInv, NEW w \in Callers, WriteBack(w)
  PROVE  TriageInv'
<1> USE DEF TriageInv
<1> DEFINE k == call[w]
           next == Over(k)
<1>1. /\ call' = [call EXCEPT ![w] = next] /\ k.at = "write" /\ UNCHANGED <<world, mirror, prints>>
      /\ call \in [Callers -> Calls] /\ k \in Calls
  BY DEF WriteBack, Next1, Goes, Types
<1>2. next \in Calls /\ next.at = "idle"
  BY <1>1, GoingOn
<1>3. Engaged(k) /\ k.chain \in Investigated /\ k.doc.chain = k.chain /\ k.doc \in Docs
  BY <1>1 DEF CallInv, Engaged, Stamped, Calls
<1>4. \/ /\ index' = [index EXCEPT ![k.chain] = k.doc] /\ turns' = turns
         /\ missed' = IF Overtaken(w, k) THEN missed \cup {k.chain}
                      ELSE IF \A d \in Mirrored(k.chain) : d = k.doc
                        THEN missed \ {k.chain} ELSE missed
      \/ turns' = turns + 1 /\ missed' = missed \cup {k.chain} /\ index' = index
  BY DEF WriteBack, Write, Happens
<1> HIDE DEF k, next
<1>5. Types'
  <2>1. index \in [Investigated -> Docs] /\ missed \subseteq Investigated /\ turns \in Nat
    BY DEF Types
  <2>2. index' \in [Investigated -> Docs]
    BY <1>3, <1>4, <2>1
  <2>3. missed' \subseteq Investigated
    BY <1>3, <1>4, <2>1
  <2>4. turns' \in Nat
    BY <1>4, <2>1
  <2> QED
    BY <1>1, <1>2, <2>2, <2>3, <2>4 DEF Types, world
<1>6. MirrorInv'
  BY <1>1 DEF MirrorInv, Basis, Based, world
<1>7. CallInv'
  BY <1>1, <1>2 DEF CallInv, Engaged, Stamped, Based, world
<1>8. ASSUME writing, NEW i \in DOMAIN mirror, NEW d, d = mirror[i], d.chain \notin missed'
      PROVE  (OnItsWay(d.chain, d) \/ Arrived(d.chain, d))'
  <2>1. \A v \in Callers : v # w => /\ Writes(v, d.chain)' <=> Writes(v, d.chain)
                                    /\ call'[v] = call[v]
    BY <1>1 DEF Writes
  <2>2. ~Writes(w, d.chain)'
    BY <1>1, <1>2 DEF Writes
  <2>3. CASE d.chain # k.chain
    <3>1. d.chain \notin missed /\ index'[d.chain] = index[d.chain]
      BY <1>4, <1>8, <2>3 DEF MirrorInv, Types
    <3>2. OnItsWay(d.chain, d) \/ Arrived(d.chain, d)
      BY <1>8, <3>1 DEF IndexInv
    <3>3. ~Writes(w, d.chain)
      BY <2>3 DEF Writes, k
    <3> QED
      BY <2>1, <2>2, <3>1, <3>2, <3>3 DEF OnItsWay, Arrived
  <2>4. CASE d.chain = k.chain
    <3>1. index' = [index EXCEPT ![k.chain] = k.doc] /\ ~Overtaken(w, k)
      BY <1>4, <1>8, <2>4
    <3>2. \A v \in Callers : ~Writes(v, d.chain)'
      BY <2>1, <2>2, <2>4, <3>1 DEF Overtaken, Writes
    <3>3. index'[d.chain] = k.doc
      BY <1>3, <2>4, <3>1 DEF Types
    <3>4. k.doc = d
      <4>1. CASE d.chain \in missed
        <5>1. \A e \in Mirrored(k.chain) : e = k.doc
          BY <1>4, <1>8, <2>4, <3>1, <4>1
        <5> QED
          BY <1>8, <2>4, <5>1 DEF Mirrored
      <4>2. CASE d.chain \notin missed
        <5>1. OnItsWay(d.chain, d)
          BY <1>1, <1>8, <2>4, <4>2 DEF IndexInv, Arrived, Writes, k
        <5>2. PICK v \in Callers : Writes(v, d.chain) /\ call[v].doc = d
          BY <5>1 DEF OnItsWay
        <5>3. v = w
          BY <2>4, <3>1, <5>2 DEF Overtaken, Writes
        <5> QED
          BY <5>2, <5>3 DEF k
      <4> QED
        BY <4>1, <4>2
    <3> QED
      BY <3>2, <3>3, <3>4 DEF Arrived
  <2> QED
    BY <2>3, <2>4
<1>9. IndexInv'
  BY <1>1, <1>8 DEF IndexInv, world
<1> QED
  BY <1>5, <1>6, <1>7, <1>9

\* The evidence grows, or the provider changes.
LEMMA WorldTurning ==
  ASSUME TriageInv, UNCHANGED <<results, call, scope, writing>>, turns' \in Nat,
         evidence' \in [Investigated -> Nat], \A c \in Investigated : evidence[c] <= evidence'[c],
         surfaced' \subseteq Investigated, model' \in {"local", "cloud"}, reachable' \in BOOLEAN
  PROVE  TriageInv'
<1> USE DEF TriageInv
<1>1. Types'
  BY DEF Types, results
<1>2. \A c \in Investigated : evidence[c] \in Nat /\ evidence'[c] \in Nat
  BY DEF Types
<1>3. ASSUME NEW d \in Docs, NEW n, d.chain \in Investigated, Based(d, n)
      PROVE  Based(d, n)'
  BY <1>2, <1>3 DEF Based, Docs
<1>4. MirrorInv'
  <2>1. ASSUME NEW i \in DOMAIN mirror PROVE Basis(mirror[i], prints[mirror[i].chain])'
    <3>1. PICK d, p : d = mirror[i] /\ p = prints[d.chain]
      OBVIOUS
    <3>2. d \in Docs /\ d.chain \in Investigated /\ p # <<>> /\ Based(d, p[3])
      BY <2>1, <3>1 DEF MirrorInv, Types, Basis
    <3>3. Based(d, p[3])'
      BY <1>3, <3>2
    <3> QED
      BY <3>1, <3>2, <3>3 DEF results, Basis
  <2> QED
    BY <2>1 DEF MirrorInv, results
<1>5. CallInv'
  <2>1. ASSUME NEW w \in Callers, call'[w].at # "idle" PROVE Engaged(call[w])'
    <3>1. PICK k \in Calls : k = call[w]
      BY DEF Types
    <3>2. Engaged(k) /\ k.chain \in Investigated /\ k.stamp \in Nat /\ k.doc \in Docs
      BY <2>1, <3>1 DEF CallInv, Engaged, Stamped, Calls
    <3>3. k.at \in {"context", "model"} => Based(k.doc, k.stamp)'
      BY <1>3, <3>2 DEF Engaged, Stamped
    <3>4. k.stamp <= evidence'[k.chain]
      BY <1>2, <3>2 DEF Engaged, Stamped
    <3> QED
      BY <3>1, <3>2, <3>3, <3>4 DEF Engaged, Stamped
  <2> QED
    BY <2>1 DEF CallInv
<1>6. IndexInv'
  BY DEF IndexInv, OnItsWay, Arrived, Writes, results
<1> QED
  BY <1>1, <1>4, <1>5, <1>6

LEMMA Restarting == ASSUME TriageInv, Restart PROVE TriageInv'
<1> USE DEF TriageInv
<1>1. /\ mirror' = <<>> /\ prints' = [c \in Investigated |-> <<>>]
      /\ call' = [w \in Callers |-> Idle] /\ UNCHANGED <<world, index, missed>> /\ turns' = turns + 1
  BY DEF Restart, Happens
<1>2. Types'
  BY <1>1, Nothing DEF Types, world, Prints
<1>3. MirrorInv'
  BY <1>1, TriageAssumption DEF MirrorInv, Distinct
<1>4. CallInv'
  BY <1>1, Nothing DEF CallInv
<1>5. IndexInv'
  BY <1>1 DEF IndexInv
<1> QED
  BY <1>2, <1>3, <1>4, <1>5

LEMMA TriageStarts == TriageInit => TriageInv
<1> SUFFICES ASSUME TriageInit PROVE TriageInv
  OBVIOUS
<1> USE DEF TriageInit
<1>1. Types
  BY Nothing, TriageAssumption DEF Types, Prints
<1>2. MirrorInv
  BY TriageAssumption DEF MirrorInv, Distinct
<1>3. CallInv
  BY Nothing DEF CallInv
<1>4. IndexInv
  BY DEF IndexInv
<1> QED
  BY <1>1, <1>2, <1>3, <1>4 DEF TriageInv

----------------------------------------------------------------------------
\* The actions.

\* The stamp and the fingerprint of one moment.
LEMMA Stamping ==
  ASSUME Types, NEW c \in Investigated
  PROVE  /\ FingerprintOf(c) \in Prints \ {<<>>} /\ FingerprintOf(c)[3] = evidence[c]
         /\ FingerprintOf(c)[2] = model
<1>1. evidence[c] \in Nat /\ model \in {"local", "cloud"}
  BY DEF Types
<1>2. PICK b \in BOOLEAN : FingerprintOf(c) = <<b, model, evidence[c]>>
  <2>1. (c \in surfaced) \in BOOLEAN
    OBVIOUS
  <2> QED
    BY <2>1, Zenon DEF FingerprintOf
<1>3. <<b, model, evidence[c]>> \in BOOLEAN \X {"local", "cloud"} \X Nat
  BY <1>1
<1> QED
  BY <1>1, <1>2, <1>3 DEF Prints

LEMMA Deciding ==
  ASSUME TriageInv, NEW w \in Callers, NEW k \in Calls, Decide(w, k), call[w].at # "write",
         Stamped(k), UNCHANGED world, UNCHANGED turns
  PROVE  TriageInv'
<1>1. Types /\ k.chain \in Investigated /\ evidence[k.chain] \in Nat /\ k.stamp \in Nat
      /\ k.print \in Prints /\ k.stamp <= evidence[k.chain] /\ k.print # <<>>
      /\ k.print[3] = k.stamp /\ turns \in Nat
  BY DEF TriageInv, Types, Stamped, Calls
<1>2. CASE \E d \in Mirrored(k.chain) : MarkStale(w, k, d)
  <2>1. PICK i \in DOMAIN mirror : mirror[i].chain = k.chain /\ MarkStale(w, k, mirror[i])
    BY <1>2 DEF Mirrored
  <2> DEFINE doc == [mirror[i] EXCEPT !.facts = evidence[k.chain], !.stale = TRUE]
  <2>2. mirror[i] \in Docs
    BY <1>1 DEF Types
  <2>3. doc \in Docs /\ doc.chain = k.chain /\ doc.facts = evidence[k.chain] /\ doc.stale
    BY <1>1, <2>1, <2>2 DEF Docs
  <2>4. Stored(w, k, doc, k.print)
    BY <2>1 DEF MarkStale
  <2> HIDE DEF doc
  <2>5. Basis(doc, k.print)
    BY <1>1, <2>3 DEF Basis, Based
  <2> QED
    BY <1>1, <2>3, <2>4, <2>5, StoringStep
<1>3. CASE \A d \in Mirrored(k.chain) : ~Outdated(w, d, k.stamp)
  <2> DEFINE doc == [NoDoc EXCEPT !.chain = k.chain, !.facts = evidence[k.chain],
                                  !.claimed = k.stamp]
             next == [k EXCEPT !.at = "context", !.doc = doc]
  <2>1. Goes(w, next) /\ UNCHANGED results
    BY <1>3 DEF Decide
  <2>2. doc \in Docs /\ doc.chain = k.chain /\ doc.facts = evidence[k.chain] /\ doc.analysed = 0
    BY <1>1 DEF NoDoc, Docs, Statuses
  <2> HIDE DEF doc
  <2>3. next \in Calls /\ next.at = "context" /\ next.doc = doc /\ next.chain = k.chain
        /\ next.stamp = k.stamp /\ next.print = k.print
    BY <2>2 DEF Calls
  <2> HIDE DEF next
  <2>4. Engaged(next)
    BY <1>1, <2>2, <2>3 DEF Engaged, Stamped, Based
  <2>5. Advances(w, next)
    BY <2>1, <2>3, <2>4 DEF Advances
  <2> QED
    BY <1>1, <2>1, <2>5, Advancing
<1> QED
  BY <1>2, <1>3 DEF Decide

LEMMA Beginning == ASSUME TriageInv, NEW w \in Callers, NEW c \in Investigated, Begin(w, c)
                   PROVE  TriageInv'
<1> DEFINE k == [Idle EXCEPT !.chain = c, !.left = call[w].left \ {c}, !.stamp = evidence[c],
                             !.print = FingerprintOf(c)]
<1>1. Types /\ call[w] \in Calls /\ evidence[c] \in Nat /\ turns \in Nat
  BY DEF TriageInv, Types
<1>2. k \in Calls /\ k.at = "idle" /\ k.chain = c /\ k.stamp = evidence[c]
      /\ k.print = FingerprintOf(c)
  BY <1>1, Stamping, Nothing DEF Idle, Calls
<1>3. /\ call[w].at = "idle" /\ UNCHANGED <<world, turns>>
      /\ \/ Decide(w, k)
         \/ Goes(w, [k EXCEPT !.at = "health"]) /\ UNCHANGED results
         \/ Goes(w, Over(k)) /\ UNCHANGED results
  BY DEF Begin, Next1
<1> HIDE DEF k
<1>4. Stamped(k)
  BY <1>1, <1>2, Stamping DEF Stamped
<1>5. CASE Decide(w, k)
  BY <1>2, <1>3, <1>4, <1>5, Deciding
<1>6. CASE Goes(w, [k EXCEPT !.at = "health"]) /\ UNCHANGED results
  <2> DEFINE next == [k EXCEPT !.at = "health"]
  <2>1. next \in Calls /\ next.at = "health" /\ next.chain = k.chain /\ next.stamp = k.stamp
        /\ next.print = k.print
    BY <1>2 DEF Calls
  <2>2. Goes(w, next)
    BY <1>6
  <2> HIDE DEF next
  <2>3. Advances(w, next)
    BY <1>3, <1>4, <2>1, <2>2 DEF Advances, Engaged, Stamped
  <2> QED
    BY <1>1, <1>3, <1>6, <2>3, Advancing
<1>7. CASE Goes(w, Over(k)) /\ UNCHANGED results
  BY <1>1, <1>2, <1>3, <1>7, GoingOn, Advancing DEF Advances
<1> QED
  BY <1>3, <1>5, <1>6, <1>7

LEMMA Probing == ASSUME TriageInv, NEW w \in Callers, Health(w) PROVE TriageInv'
<1>1. call[w] \in Calls /\ call[w].at = "health" /\ turns \in Nat /\ UNCHANGED <<world, turns>>
  BY DEF TriageInv, Types, Health
<1>2. Stamped(call[w])
  BY <1>1 DEF TriageInv, CallInv, Engaged
<1>3. CASE Goes(w, Over(call[w])) /\ UNCHANGED results
  BY <1>1, <1>3, GoingOn, Advancing DEF Advances
<1>4. CASE Decide(w, call[w])
  BY <1>1, <1>2, <1>4, Deciding
<1> QED
  BY <1>3, <1>4 DEF Health, Next1

LEMMA BuildingPayload == ASSUME TriageInv, NEW w \in Callers, Context(w) PROVE TriageInv'
<1> DEFINE k == call[w]
<1>1. k \in Calls /\ k.at = "context" /\ turns \in Nat /\ UNCHANGED <<world, turns>>
      /\ Types /\ k.doc \in Docs /\ k.print \in Prints /\ k.stamp \in Nat
  BY DEF TriageInv, Types, Context, Calls
<1>2. Engaged(k) /\ k.chain \in Investigated /\ evidence[k.chain] \in Nat
  BY <1>1 DEF TriageInv, CallInv, Engaged, Stamped, Types
<1>3. CASE Goes(w, [k EXCEPT !.at = "model", !.doc.analysed = EvidenceNow(k)]) /\ UNCHANGED results
  <2> DEFINE next == [k EXCEPT !.at = "model", !.doc.analysed = EvidenceNow(k)]
             doc == [k.doc EXCEPT !.analysed = evidence[k.chain]]
  <2>1. Goes(w, next)
    BY <1>3
  <2>2. next = [k EXCEPT !.at = "model", !.doc = doc]
    BY <1>1 DEF EvidenceNow, Calls
  <2>3. doc \in Docs /\ doc.chain = k.doc.chain /\ doc.facts = k.doc.facts
        /\ doc.analysed = evidence[k.chain]
    BY <1>1, <1>2 DEF Docs
  <2> HIDE DEF doc
  <2>4. next \in Calls /\ next.at = "model" /\ next.chain = k.chain /\ next.stamp = k.stamp
        /\ next.print = k.print /\ next.doc = doc
    BY <1>1, <2>2, <2>3 DEF Calls
  <2> HIDE DEF next, k
  <2>5. Based(doc, k.stamp)
    BY <1>1, <1>2, <2>3 DEF Engaged, Stamped, Based
  <2>6. Advances(w, next)
    BY <1>1, <1>2, <2>1, <2>3, <2>4, <2>5 DEF Advances, Engaged, Stamped, k
  <2> QED
    BY <1>1, <1>3, <2>6, Advancing
<1>4. CASE Stored(w, k, [k.doc EXCEPT !.status = "pending"], k.print)
  <2> DEFINE doc == [k.doc EXCEPT !.status = "pending"]
  <2>1. doc \in Docs /\ doc.chain = k.doc.chain /\ doc.facts = k.doc.facts
        /\ doc.analysed = k.doc.analysed /\ doc.stale = k.doc.stale
    BY <1>1 DEF Docs, Statuses
  <2>2. Stored(w, k, doc, k.print)
    BY <1>4
  <2> HIDE DEF doc
  <2>3. Basis(doc, k.print) /\ doc.chain = k.chain
    BY <1>1, <1>2, <2>1 DEF Engaged, Stamped, Basis, Based
  <2> QED
    BY <1>1, <1>2, <2>1, <2>2, <2>3, StoringStep DEF Engaged
<1> QED
  BY <1>3, <1>4 DEF Context

LEMMA Answering == ASSUME TriageInv, NEW w \in Callers, Model(w) PROVE TriageInv'
<1> DEFINE k == call[w]
<1>1. k \in Calls /\ k.at = "model" /\ UNCHANGED <<world, turns>> /\ k.doc \in Docs
      /\ k.print \in Prints
  BY DEF TriageInv, Types, Model, Calls
<1>2. Engaged(k)
  BY <1>1 DEF TriageInv, CallInv
<1>3. PICK doc \in Answers(k) : Stored(w, k, doc, k.print)
  BY DEF Model, PrintOf
<1>4. doc \in Docs /\ doc.chain = k.doc.chain /\ doc.facts = k.doc.facts
      /\ doc.analysed \in {0, k.doc.analysed} /\ doc.stale = k.doc.stale
  <2>1. CASE doc = [k.doc EXCEPT !.status = "triaged"]
    BY <1>1, <2>1 DEF Docs, Statuses
  <2>2. CASE doc = [k.doc EXCEPT !.status = "ai_unavailable", !.analysed = 0]
    BY <1>1, <2>2 DEF Docs, Statuses
  <2> QED
    BY <1>3, <2>1, <2>2 DEF Answers
<1>5. Basis(doc, k.print) /\ doc.chain = k.chain
  BY <1>1, <1>2, <1>4 DEF Engaged, Stamped, Basis, Based
<1> QED
  BY <1>1, <1>2, <1>3, <1>4, <1>5, StoringStep DEF Engaged

\* The next round of a cycle, and a request.
LEMMA Queueing ==
  ASSUME TriageInv, NEW w \in Callers, call[w] = Idle, NEW chains \in SUBSET Investigated,
         Goes(w, [Idle EXCEPT !.left = chains]), UNCHANGED <<world, results>>, turns' \in Nat
  PROVE  TriageInv'
<1> DEFINE next == [Idle EXCEPT !.left = chains]
<1>1. next \in Calls /\ next.at = "idle"
  BY Nothing DEF Idle, Calls
<1>2. Goes(w, next)
  OBVIOUS
<1> HIDE DEF next
<1>3. Advances(w, next)
  BY <1>1, <1>2, Nothing DEF Advances
<1> QED
  BY <1>3, Advancing

LEMMA TriageSteps == TriageInv /\ [TriageNext]_triageVars => TriageInv'
<1> SUFFICES ASSUME TriageInv, [TriageNext]_triageVars PROVE TriageInv'
  OBVIOUS
<1>1. Types /\ turns \in Nat
  BY DEF TriageInv, Types
<1>2. ASSUME NEW w \in Callers, StartCycle(w) PROVE TriageInv'
  <2> DEFINE chains == {c \in Investigated : evidence[c] > 0}
  <2>1. call[w] = Idle /\ Goes(w, [Idle EXCEPT !.left = chains])
        /\ UNCHANGED <<world, results>> /\ turns' \in Nat
    BY <1>1, <1>2 DEF StartCycle
  <2>2. chains \in SUBSET Investigated
    OBVIOUS
  <2> HIDE DEF chains
  <2> QED
    BY <2>1, <2>2, Queueing
<1>3. ASSUME NEW c \in Investigated, Retriage(c) PROVE TriageInv'
  <2>1. /\ Request \in Callers /\ call[Request] = Idle /\ {c} \in SUBSET Investigated
        /\ Goes(Request, [Idle EXCEPT !.left = {c}])
        /\ UNCHANGED <<world, results>> /\ turns' \in Nat
    BY <1>1, <1>3 DEF Retriage, Callers, Happens
  <2> QED
    BY <2>1, Queueing
<1>4. ASSUME NEW c \in Investigated, Evolve(c) PROVE TriageInv'
  <2>1. /\ evidence' = [evidence EXCEPT ![c] = @ + 1] /\ surfaced' \subseteq surfaced \cup {c}
        /\ UNCHANGED <<results, call, scope, writing, model, reachable, turns>>
    BY <1>4 DEF Evolve
  <2>2. evidence \in [Investigated -> Nat]
    BY <1>1 DEF Types
  <2>3. evidence' \in [Investigated -> Nat] /\ \A b \in Investigated : evidence[b] <= evidence'[b]
    BY <2>1, <2>2
  <2> QED
    BY <1>1, <2>1, <2>3, WorldTurning DEF Types
<1>5. CASE Switch \/ Outage
  <2>1. /\ UNCHANGED <<results, call, scope, writing, evidence, surfaced>> /\ turns' \in Nat
        /\ model' \in {"local", "cloud"} /\ reachable' \in BOOLEAN
    <3>1. model \in {"local", "cloud"} /\ reachable \in BOOLEAN
      BY <1>1 DEF Types
    <3>2. CASE Switch
      BY <1>1, <3>1, <3>2 DEF Switch, Happens
    <3>3. CASE Outage
      <4>1. reachable' = ~reachable /\ UNCHANGED <<results, call, scope, writing, evidence, surfaced>>
            /\ model' = model /\ turns' = turns + 1
        BY <3>3 DEF Outage, Happens
      <4>2. reachable' \in BOOLEAN
        BY <4>1
      <4> QED
        BY <1>1, <3>1, <4>1, <4>2
    <3> QED
      BY <1>5, <3>2, <3>3
  <2>2. \A b \in Investigated : evidence[b] <= evidence'[b]
    BY <1>1, <2>1 DEF Types
  <2> QED
    BY <1>1, <2>1, <2>2, WorldTurning DEF Types
<1>6. CASE UNCHANGED triageVars
  <2>1. UNCHANGED <<results, call, world, turns>>
    BY <1>6 DEF triageVars, results, world
  <2>2. \A b \in Investigated : evidence[b] <= evidence'[b]
    BY <1>1, <2>1 DEF Types, world
  <2> QED
    BY <1>1, <2>1, <2>2, WorldTurning DEF Types, world
<1>7. ASSUME NEW w \in Callers, Step(w) PROVE TriageInv'
  BY <1>2, <1>7, Beginning, Probing, BuildingPayload, Answering, WritingBack DEF Step
<1> QED
  BY <1>3, <1>4, <1>5, <1>6, <1>7, Restarting DEF TriageNext

LEMMA TriageInvHolds == TriageSpec => []TriageInv
  BY TriageStarts, TriageSteps, PTL DEF TriageSpec

----------------------------------------------------------------------------
\* The theorems.

\* An analysis of evidence that has changed is never settled for: the document
\* is marked, or its fingerprint is not the chain's and the next cycle comes
\* back to it (TriageService.process_cluster, _mark_stale, _fingerprint).
THEOREM NoStaleAnalysisSettled == TriageSpec => []StaleIsMarked
<1>1. TriageInv => StaleIsMarked
  <2> SUFFICES ASSUME TriageInv, NEW c \in Investigated, NEW i \in DOMAIN mirror,
                      mirror[i].chain = c, prints[c] = FingerprintOf(c)
               PROVE  /\ mirror[i].facts = evidence[c]
                      /\ mirror[i].analysed \in {0, evidence[c]} \/ mirror[i].stale
    BY DEF StaleIsMarked, Mirrored
  <2>1. Types /\ mirror[i] \in Docs /\ evidence[c] \in Nat
    BY DEF TriageInv, Types
  <2>2. Based(mirror[i], evidence[c])
    BY <2>1, Stamping DEF TriageInv, MirrorInv, Basis
  <2> QED
    BY <2>1, <2>2 DEF Based, Docs
<1> QED
  BY <1>1, TriageInvHolds, PTL

\* The results index shows of a chain what the mirror shows, unless a write of
\* it failed or was overtaken by another (ResultWriter.write after
\* TriageService._store_result).
THEOREM IndexShowsMirror == TriageSpec => []IndexMirrors
<1>1. TriageInv => IndexMirrors
  BY DEF TriageInv, IndexInv, IndexMirrors, Mirrored, OnItsWay, Arrived, Writes
<1> QED
  BY <1>1, TriageInvHolds, PTL

\* The mirror never holds more documents than it has room for, nor two of one
\* chain, whatever callers cross in it (TriageService._store_result).
MirrorFits == Len(mirror) <= Room /\ Distinct(mirror)
THEOREM MirrorStaysBounded == TriageSpec => []MirrorFits
<1>1. TriageInv => MirrorFits
  BY DEF TriageInv, MirrorInv, MirrorFits
<1> QED
  BY <1>1, TriageInvHolds, PTL

\* A set that has a number when it has all smaller ones has every number.
LEMMA AllNumbers ==
  ASSUME NEW S, \A n \in Nat : (\A m \in Nat : m < n => m \in S) => n \in S
  PROVE  Nat \subseteq S
<1>1. IsWellFoundedOn(OpToRel(<, Nat), Nat)
  BY NatLessThanWellFounded
<1>2. SUFFICES ASSUME Nat \ S # {} PROVE FALSE
  OBVIOUS
<1>3. PICK n \in Nat \ S : \A m \in Nat \ S : <<m, n>> \notin OpToRel(<, Nat)
  BY <1>1, <1>2, WFMin
<1>4. \A m \in Nat : m < n => <<m, n>> \in OpToRel(<, Nat)
  BY DEF OpToRel
<1> QED
  BY <1>3, <1>4

----------------------------------------------------------------------------
\* Texts: where one begins, and where it is in another.

Starts(v, t) == Len(v) <= Len(t) /\ \A j \in 1..Len(v) : t[j] = v[j]
At(v, t, i) == i + Len(v) <= Len(t) + 1 /\ \A j \in 1..Len(v) : t[i + j - 1] = v[j]

\* One text behind another; the provers do better with a name for it.
s ++ t == s \o t

LEMMA TextIs ==
  ASSUME NEW t \in Texts
  PROVE  /\ Len(t) \in Nat /\ DOMAIN t = 1..Len(t) /\ \A i \in 1..Len(t) : t[i] \in Pieces
         /\ ToSet(t) = {t[i] : i \in 1..Len(t)} /\ (t = <<>> <=> Len(t) = 0)
  BY EmptySeq DEF Texts, ToSet

LEMMA JoinIs ==
  ASSUME NEW s \in Texts, NEW t \in Texts
  PROVE  /\ s ++ t \in Texts /\ Len(s ++ t) = Len(s) + Len(t)
         /\ \A i \in 1..Len(s) : (s ++ t)[i] = s[i]
         /\ \A i \in 1..Len(t) : (s ++ t)[Len(s) + i] = t[i]
<1>1. Len(s) \in Nat /\ Len(t) \in Nat
  BY TextIs
<1>2. /\ s ++ t \in Texts /\ Len(s ++ t) = Len(s) + Len(t)
      /\ \A i \in 1..Len(s) + Len(t) : (s ++ t)[i] = IF i <= Len(s) THEN s[i] ELSE t[i - Len(s)]
  BY ConcatProperties DEF Texts, ++
<1> QED
  BY <1>1, <1>2

LEMMA OneIs ==
  ASSUME NEW c \in Pieces
  PROVE  <<c>> \in Texts /\ Len(<<c>>) = 1 /\ <<c>>[1] = c
<1>1. <<c>> = Append(<<>>, c)
  OBVIOUS
<1>2. Append(<<>>, c) \in Seq(Pieces)
  BY AppendProperties, EmptySeq
<1> QED
  BY <1>1, <1>2 DEF Texts

\* A text that starts another is followed by a rest.
LEMMA StartAndRest ==
  ASSUME NEW t \in Texts, NEW v \in Texts, Starts(v, t)
  PROVE  \E u \in Texts : t = v ++ u /\ Len(t) = Len(v) + Len(u)
<1> DEFINE u == SubSeq(t, Len(v) + 1, Len(t))
<1>1. /\ Len(t) \in Nat /\ Len(v) \in Nat /\ Len(v) <= Len(t)
      /\ \A i \in 1..Len(t) : t[i] \in Pieces
  BY TextIs DEF Starts
<1>2. u \in Texts /\ Len(u) = Len(t) - Len(v) /\ \A i \in 1..Len(u) : u[i] = t[Len(v) + i]
  <2>1. /\ SubSeq(t, Len(v) + 1, Len(t)) \in Seq(Pieces)
        /\ Len(u) = IF Len(v) + 1 <= Len(t) THEN Len(t) - (Len(v) + 1) + 1 ELSE 0
        /\ \A i \in 1..Len(t) - (Len(v) + 1) + 1 : u[i] = t[Len(v) + 1 + i - 1]
    BY <1>1, SubSeqProperties
  <2> QED
    BY <1>1, <2>1 DEF Texts
<1> HIDE DEF u
<1>3. v ++ u \in Texts /\ Len(v ++ u) = Len(t)
  BY <1>1, <1>2, JoinIs
<1>4. ASSUME NEW i \in 1..Len(t) PROVE t[i] = (v ++ u)[i]
  <2>1. CASE i <= Len(v)
    BY <1>1, <1>2, <1>4, <2>1, JoinIs DEF Starts
  <2>2. CASE ~(i <= Len(v))
    <3>1. i - Len(v) \in 1..Len(u) /\ Len(v) + (i - Len(v)) = i
      BY <1>1, <1>2, <1>4, <2>2
    <3> DEFINE k == i - Len(v)
    <3>2. (v ++ u)[Len(v) + k] = u[k]
      BY <1>2, <3>1, JoinIs
    <3>3. u[k] = t[Len(v) + k]
      BY <1>2, <3>1
    <3> QED
      BY <3>1, <3>2, <3>3
  <2> QED
    BY <2>1, <2>2
<1>5. t = v ++ u
  BY <1>3, <1>4, SeqEqual DEF Texts
<1> QED
  BY <1>1, <1>2, <1>5

\* A text is its first piece and the rest.
LEMMA FirstAndRest ==
  ASSUME NEW t \in Texts, t # <<>>
  PROVE  \E a, u \in Texts : t = a ++ u /\ Len(a) = 1 /\ Len(t) = Len(u) + 1
<1>1. Len(t) \in Nat \ {0} /\ t[1] \in Pieces
  BY TextIs
<1>2. PICK a \in Texts : Len(a) = 1 /\ a[1] = t[1]
  BY <1>1, OneIs
<1>3. Starts(a, t)
  BY <1>1, <1>2 DEF Starts
<1>4. PICK u \in Texts : t = a ++ u /\ Len(t) = Len(a) + Len(u)
  BY <1>2, <1>3, StartAndRest
<1>5. Len(t) = Len(u) + 1
  BY <1>2, <1>4, TextIs
<1> QED
  BY <1>2, <1>4, <1>5

LEMMA HoldsAt ==
  ASSUME NEW t \in Texts, NEW v \in Texts, NEW i \in 1..Len(t) + 1
  PROVE  Holds(t, v, i) <=> At(v, t, i)
<1>1. Len(t) \in Nat /\ Len(v) \in Nat /\ \A j \in 1..Len(t) : t[j] \in Pieces
  BY TextIs
<1>2. CASE i + Len(v) <= Len(t) + 1
  <2> DEFINE w == SubSeq(t, i, i + Len(v) - 1)
  <2>1. \A j \in i..i + Len(v) - 1 : t[j] \in Pieces
    BY <1>1, <1>2
  <2>2. /\ w \in Seq(Pieces) /\ Len(w) = IF i <= i + Len(v) - 1 THEN i + Len(v) - 1 - i + 1 ELSE 0
        /\ \A j \in 1..i + Len(v) - 1 - i + 1 : w[j] = t[i + j - 1]
    BY <1>1, <2>1, SubSeqProperties
  <2> HIDE DEF w
  <2>3. w \in Texts /\ Len(w) = Len(v) /\ \A j \in 1..Len(v) : w[j] = t[i + j - 1]
    BY <1>1, <2>2 DEF Texts
  <2>4. w = v <=> \A j \in 1..Len(v) : w[j] = v[j]
    BY <2>3, SeqEqual DEF Texts
  <2> QED
    BY <1>2, <2>3, <2>4 DEF Holds, At, w
<1>3. CASE ~(i + Len(v) <= Len(t) + 1)
  BY <1>3 DEF Holds, At
<1> QED
  BY <1>2, <1>3

LEMMA OccursAt ==
  ASSUME NEW t \in Texts, NEW v \in Texts
  PROVE  Occurs(v, t) <=> \E i \in 1..Len(t) : At(v, t, i)
<1>1. DOMAIN t = 1..Len(t) /\ Len(t) \in Nat
  BY TextIs
<1>2. \A i \in 1..Len(t) : Holds(t, v, i) <=> At(v, t, i)
  BY <1>1, HoldsAt
<1> QED
  BY <1>1, <1>2 DEF Occurs

LEMMA AtFirst ==
  ASSUME NEW t \in Texts, NEW v \in Texts
  PROVE  At(v, t, 1) <=> Starts(v, t)
  BY TextIs DEF At, Starts

\* What is found behind a text.
LEMMA AtBehind ==
  ASSUME NEW a \in Texts, NEW u \in Texts, NEW v \in Texts, NEW i \in 1..Len(u) + 1
  PROVE  At(v, a ++ u, Len(a) + i) <=> At(v, u, i)
<1>1. /\ Len(a) \in Nat /\ Len(u) \in Nat /\ Len(v) \in Nat /\ Len(a ++ u) = Len(a) + Len(u)
      /\ \A j \in 1..Len(u) : (a ++ u)[Len(a) + j] = u[j]
  BY TextIs, JoinIs
<1>2. Len(a) + i + Len(v) <= Len(a ++ u) + 1 <=> i + Len(v) <= Len(u) + 1
  BY <1>1
<1>3. ASSUME i + Len(v) <= Len(u) + 1, NEW j \in 1..Len(v)
      PROVE  (a ++ u)[Len(a) + i + j - 1] = u[i + j - 1]
  <2>1. i + j - 1 \in 1..Len(u) /\ Len(a) + (i + j - 1) = Len(a) + i + j - 1
    BY <1>1, <1>3
  <2> QED
    BY <1>1, <2>1
<1> QED
  BY <1>2, <1>3 DEF At

LEMMA CountUp ==
  ASSUME NEW S, 0 \in S, \A n \in Nat : n \in S => n + 1 \in S
  PROVE  Nat \subseteq S
<1>1. ASSUME NEW n \in Nat, \A m \in Nat : m < n => m \in S PROVE n \in S
  <2>1. CASE n = 0
    BY <2>1
  <2>2. CASE n # 0
    <3>1. n - 1 \in Nat /\ n - 1 < n /\ (n - 1) + 1 = n
      BY <2>2
    <3> QED
      BY <1>1, <3>1
  <2> QED
    BY <2>1, <2>2
<1> QED
  BY <1>1, AllNumbers

----------------------------------------------------------------------------
\* Replacing: what is left of a text from each place on.

Piece(t, old, new, f, i) ==
  IF i > Len(t) THEN <<>>
  ELSE IF Holds(t, old, i) THEN new ++ f[i + Len(old)]
  ELSE <<t[i]>> ++ f[i + 1]
RestIs(t, old, new, f) == f = [i \in 1..(Len(t) + 1) |-> Piece(t, old, new, f, i)]

LEMMA RestExists ==
  ASSUME NEW t \in Texts, NEW old \in Texts, old # <<>>, NEW new
  PROVE  \E f : RestIs(t, old, new, f)
<1> DEFINE n == Len(t)
           D(k) == {i \in 1..(n + 1) : i + k > n}
           Filled(f, k) == [i \in D(k) |-> Piece(t, old, new, f, i)]
           Upto == {k \in Nat : \E f : f = Filled(f, k)}
<1>1. n \in Nat /\ Len(old) \in Nat \ {0}
  BY TextIs
<1> HIDE DEF n
<1>2. 0 \in Upto
  <2> DEFINE f == [i \in D(0) |-> <<>>]
  <2>1. \A i \in D(0) : Piece(t, old, new, f, i) = <<>>
    BY <1>1 DEF Piece, n
  <2>2. f = Filled(f, 0)
    BY <2>1
  <2> QED
    BY <2>2
<1>3. ASSUME NEW k \in Nat, k \in Upto PROVE k + 1 \in Upto
  <2>1. PICK f : f = Filled(f, k)
    BY <1>3
  <2> DEFINE g == Filled(f, k + 1)
  <2>2. ASSUME NEW j \in D(k) PROVE f[j] = g[j]
    <3>1. f[j] = Piece(t, old, new, f, j)
      BY <2>1, <2>2
    <3>2. j \in D(k + 1)
      BY <1>1, <2>2
    <3> QED
      BY <3>1, <3>2
  <2> HIDE DEF g
  <2>3. ASSUME NEW i \in D(k + 1) PROVE Piece(t, old, new, f, i) = Piece(t, old, new, g, i)
    <3>1. CASE i > n
      BY <3>1 DEF Piece, n
    <3>2. CASE i <= n /\ Holds(t, old, i)
      <4>1. i + Len(old) \in D(k)
        BY <1>1, <2>3, <3>2 DEF Holds, n
      <4> QED
        BY <1>1, <2>2, <2>3, <3>2, <4>1 DEF Piece, n
    <3>3. CASE i <= n /\ ~Holds(t, old, i)
      <4>1. i + 1 \in D(k)
        BY <1>1, <2>3, <3>3
      <4> QED
        BY <1>1, <2>2, <2>3, <3>3, <4>1 DEF Piece, n
    <3> QED
      BY <1>1, <2>3, <3>1, <3>2, <3>3
  <2>4. g = Filled(g, k + 1)
    <3>1. g = [i \in D(k + 1) |-> Piece(t, old, new, f, i)]
      BY DEF g
    <3>2. [i \in D(k + 1) |-> Piece(t, old, new, f, i)] = [i \in D(k + 1) |-> Piece(t, old, new, g, i)]
      BY <2>3
    <3> QED
      BY <3>1, <3>2
  <2>5. \E h : h = Filled(h, k + 1)
    BY <2>4
  <2> HIDE DEF Filled
  <2> QED
    BY <2>5
<1>4. n \in Upto
  <2> HIDE DEF Upto
  <2>1. Nat \subseteq Upto
    BY <1>2, <1>3, CountUp
  <2> QED
    BY <1>1, <2>1
<1>5. D(n) = 1..(n + 1)
  BY <1>1
<1> QED
  BY <1>4, <1>5 DEF RestIs, n

LEMMA SubstitutedIs ==
  ASSUME NEW t \in Texts, NEW old \in Texts, old # <<>>, NEW new
  PROVE  \E f : RestIs(t, old, new, f) /\ Substituted(t, old, new) = f[1]
<1> DEFINE f == CHOOSE g : RestIs(t, old, new, g)
<1>1. Substituted(t, old, new) = f[1]
  BY DEF Substituted, RestIs, Piece, ++
<1>2. RestIs(t, old, new, f)
  BY RestExists
<1> QED
  BY <1>1, <1>2

\* What is left of a text does not depend on what was before.
LEMMA RestBehind ==
  ASSUME NEW a \in Texts, NEW u \in Texts, NEW old \in Texts, old # <<>>, NEW new,
         NEW f, RestIs(a ++ u, old, new, f), NEW g, RestIs(u, old, new, g)
  PROVE  f[Len(a) + 1] = g[1]
<1> DEFINE S == {k \in Nat : \A i \in 1..(Len(u) + 1) : i + k = Len(u) + 1 => f[Len(a) + i] = g[i]}
<1>1. /\ Len(a) \in Nat /\ Len(u) \in Nat /\ Len(old) \in Nat \ {0} /\ a ++ u \in Texts
      /\ Len(a ++ u) = Len(a) + Len(u) /\ \A i \in 1..Len(u) : (a ++ u)[Len(a) + i] = u[i]
  BY TextIs, JoinIs
<1>2. ASSUME NEW i \in 1..(Len(u) + 1)
      PROVE  /\ f[Len(a) + i] = Piece(a ++ u, old, new, f, Len(a) + i)
             /\ g[i] = Piece(u, old, new, g, i)
  <2>1. Len(a) + i \in 1..(Len(a ++ u) + 1)
    BY <1>1, <1>2
  <2> QED
    BY <1>2, <2>1 DEF RestIs
<1>3. ASSUME NEW k \in Nat, \A m \in Nat : m < k => m \in S PROVE k \in S
  <2>1. SUFFICES ASSUME NEW i \in 1..(Len(u) + 1), i + k = Len(u) + 1 PROVE f[Len(a) + i] = g[i]
    BY <1>3
  <2>2. Holds(a ++ u, old, Len(a) + i) <=> Holds(u, old, i)
    <3>1. Len(a) + i \in 1..(Len(a ++ u) + 1)
      BY <1>1, <2>1
    <3> QED
      BY <1>1, <2>1, <3>1, HoldsAt, AtBehind
  <2>3. ASSUME NEW j \in 1..(Len(u) + 1), i < j PROVE f[Len(a) + j] = g[j]
    <3>1. Len(u) + 1 - j \in Nat /\ Len(u) + 1 - j < k /\ j + (Len(u) + 1 - j) = Len(u) + 1
      BY <1>1, <2>1, <2>3
    <3> QED
      BY <1>3, <2>3, <3>1
  <2>4. CASE i > Len(u)
    <3>1. Len(a) + i > Len(a ++ u)
      BY <1>1, <2>1, <2>4
    <3>2. Piece(a ++ u, old, new, f, Len(a) + i) = <<>> /\ Piece(u, old, new, g, i) = <<>>
      BY <2>4, <3>1 DEF Piece
    <3> QED
      BY <1>2, <2>1, <3>2
  <2>5. CASE i <= Len(u) /\ Holds(u, old, i)
    <3>1. i + Len(old) \in 1..(Len(u) + 1) /\ i < i + Len(old)
      BY <1>1, <2>1, <2>5 DEF Holds
    <3>2. f[Len(a) + (i + Len(old))] = g[i + Len(old)]
      BY <2>3, <3>1
    <3>3. Len(a) + (i + Len(old)) = (Len(a) + i) + Len(old)
      BY <1>1, <2>1
    <3>4. ~(Len(a) + i > Len(a ++ u)) /\ ~(i > Len(u))
      BY <1>1, <2>1, <2>5
    <3>5. f[Len(a) + i] = new ++ f[(Len(a) + i) + Len(old)]
      BY <1>2, <2>1, <2>2, <2>5, <3>4 DEF Piece
    <3>6. g[i] = new ++ g[i + Len(old)]
      BY <1>2, <2>1, <2>5, <3>4 DEF Piece
    <3> QED
      BY <3>2, <3>3, <3>5, <3>6
  <2>6. CASE i <= Len(u) /\ ~Holds(u, old, i)
    <3>1. i + 1 \in 1..(Len(u) + 1) /\ i < i + 1 /\ i \in 1..Len(u)
      BY <1>1, <2>1, <2>6
    <3>2. f[Len(a) + (i + 1)] = g[i + 1] /\ (a ++ u)[Len(a) + i] = u[i]
      BY <1>1, <2>3, <3>1
    <3>3. Len(a) + (i + 1) = (Len(a) + i) + 1
      BY <1>1, <2>1
    <3>4. ~(Len(a) + i > Len(a ++ u)) /\ ~(i > Len(u))
      BY <1>1, <2>1, <2>6
    <3>5. f[Len(a) + i] = <<(a ++ u)[Len(a) + i]>> ++ f[(Len(a) + i) + 1]
      BY <1>2, <2>1, <2>2, <2>6, <3>4 DEF Piece
    <3>6. g[i] = <<u[i]>> ++ g[i + 1]
      BY <1>2, <2>1, <2>6, <3>4 DEF Piece
    <3> QED
      BY <3>2, <3>3, <3>5, <3>6
  <2> QED
    BY <1>1, <2>1, <2>4, <2>5, <2>6
<1>4. Len(u) \in S
  <2> HIDE DEF S
  <2>1. Nat \subseteq S
    BY <1>3, AllNumbers
  <2> QED
    BY <1>1, <2>1
<1> QED
  BY <1>1, <1>4

\* Replacing in nothing, at a place that shows the text and at one that does not.
LEMMA SubNone ==
  ASSUME NEW v \in Texts, v # <<>>, NEW w
  PROVE  Substituted(<<>>, v, w) = <<>>
<1>1. <<>> \in Texts /\ Len(<<>>) = 0
  BY EmptySeq DEF Texts
<1>2. PICK f : RestIs(<<>>, v, w, f) /\ Substituted(<<>>, v, w) = f[1]
  BY <1>1, SubstitutedIs
<1>3. f[1] = Piece(<<>>, v, w, f, 1)
  BY <1>1, <1>2 DEF RestIs
<1> QED
  BY <1>1, <1>2, <1>3 DEF Piece

LEMMA SubHere ==
  ASSUME NEW v \in Texts, v # <<>>, NEW w, NEW u \in Texts
  PROVE  Substituted(v ++ u, v, w) = w ++ Substituted(u, v, w)
<1>1. /\ v ++ u \in Texts /\ Len(v ++ u) = Len(v) + Len(u) /\ Len(u) \in Nat /\ Len(v) \in Nat \ {0}
      /\ \A i \in 1..Len(v) : (v ++ u)[i] = v[i]
  BY TextIs, JoinIs
<1>2. PICK f : RestIs(v ++ u, v, w, f) /\ Substituted(v ++ u, v, w) = f[1]
  BY <1>1, SubstitutedIs
<1>3. PICK g : RestIs(u, v, w, g) /\ Substituted(u, v, w) = g[1]
  BY SubstitutedIs
<1>4. f[1] = Piece(v ++ u, v, w, f, 1)
  BY <1>1, <1>2 DEF RestIs
<1>5. Holds(v ++ u, v, 1)
  <2>1. Starts(v, v ++ u)
    BY <1>1 DEF Starts
  <2>2. 1 \in 1..Len(v ++ u) + 1
    BY <1>1
  <2> QED
    BY <1>1, <2>1, <2>2, HoldsAt, AtFirst
<1>6. f[1 + Len(v)] = g[1] /\ ~(1 > Len(v ++ u))
  BY <1>1, <1>2, <1>3, RestBehind
<1> QED
  BY <1>2, <1>3, <1>4, <1>5, <1>6 DEF Piece

LEMMA SubBeyond ==
  ASSUME NEW v \in Texts, v # <<>>, NEW w, NEW a \in Texts, Len(a) = 1, NEW u \in Texts,
         ~Starts(v, a ++ u)
  PROVE  Substituted(a ++ u, v, w) = a ++ Substituted(u, v, w)
<1>1. /\ a ++ u \in Texts /\ Len(a ++ u) = 1 + Len(u) /\ Len(u) \in Nat /\ (a ++ u)[1] = a[1]
  <2>1. Len(a) \in Nat /\ Len(u) \in Nat
    BY TextIs
  <2>2. a ++ u \in Texts /\ Len(a ++ u) = Len(a) + Len(u) /\ \A i \in 1..Len(a) : (a ++ u)[i] = a[i]
    BY JoinIs
  <2> QED
    BY <2>1, <2>2
<1>2. PICK f : RestIs(a ++ u, v, w, f) /\ Substituted(a ++ u, v, w) = f[1]
  BY <1>1, SubstitutedIs
<1>3. PICK g : RestIs(u, v, w, g) /\ Substituted(u, v, w) = g[1]
  BY SubstitutedIs
<1>4. f[1] = Piece(a ++ u, v, w, f, 1)
  BY <1>1, <1>2 DEF RestIs
<1>5. ~Holds(a ++ u, v, 1)
  <2>1. 1 \in 1..Len(a ++ u) + 1
    BY <1>1
  <2> QED
    BY <1>1, <2>1, HoldsAt, AtFirst
<1>6. f[1 + 1] = g[1] /\ ~(1 > Len(a ++ u))
  <2>1. f[Len(a) + 1] = g[1]
    BY ONLY a \in Texts, u \in Texts, v \in Texts, v # <<>>, <1>2, <1>3, RestBehind
  <2> QED
    BY <1>1, <2>1
<1>7. f[1] = <<(a ++ u)[1]>> ++ f[1 + 1]
  BY <1>4, <1>5, <1>6 DEF Piece
<1>8. <<a[1]>> = a
  <2>1. a[1] \in Pieces
    BY TextIs
  <2>2. <<a[1]>> \in Texts /\ Len(<<a[1]>>) = 1 /\ <<a[1]>>[1] = a[1]
    BY <2>1, OneIs
  <2> DEFINE b == <<a[1]>>
  <2>3. b \in Seq(Pieces) /\ a \in Seq(Pieces) /\ Len(b) = Len(a) /\ b[1] = a[1] /\ Len(a) = 1
    BY <2>2 DEF Texts
  <2> HIDE DEF b
  <2>4. b = a
    BY <2>3, SeqEqual
  <2> QED
    BY <2>4 DEF b
<1> QED
  BY <1>1, <1>2, <1>3, <1>6, <1>7, <1>8

----------------------------------------------------------------------------
\* Induction over texts.

LEMMA TextsByLength ==
  ASSUME NEW Q, \A t \in Texts : (\A u \in Texts : Len(u) < Len(t) => u \in Q) => t \in Q
  PROVE  \A t \in Texts : t \in Q
<1> DEFINE S == {n \in Nat : \A t \in Texts : Len(t) = n => t \in Q}
<1>1. ASSUME NEW n \in Nat, \A m \in Nat : m < n => m \in S PROVE n \in S
  <2>1. ASSUME NEW t \in Texts, Len(t) = n PROVE t \in Q
    <3>1. ASSUME NEW u \in Texts, Len(u) < Len(t) PROVE u \in Q
      <4>1. Len(u) \in Nat /\ Len(u) < n
        BY <2>1, <3>1, TextIs
      <4> QED
        BY <1>1, <4>1
    <3> QED
      BY <3>1
  <2> QED
    BY <2>1
<1> HIDE DEF S
<1>2. Nat \subseteq S
  BY <1>1, AllNumbers
<1>3. ASSUME NEW t \in Texts PROVE t \in Q
  <2>1. Len(t) \in S
    BY <1>2, TextIs
  <2> QED
    BY <2>1 DEF S
<1> QED
  BY <1>3

\* What holds of nothing, and of a text when it holds of what follows the text v
\* it starts with, or else of what follows its first piece, holds of every text.
LEMMA TextsByFinds ==
  ASSUME NEW v \in Texts, v # <<>>, NEW Q, <<>> \in Q,
         \A u \in Texts : u \in Q => v ++ u \in Q,
         \A a, u \in Texts : u \in Q /\ Len(a) = 1 /\ ~Starts(v, a ++ u) => a ++ u \in Q
  PROVE  \A t \in Texts : t \in Q
<1>1. ASSUME NEW t \in Texts, \A u \in Texts : Len(u) < Len(t) => u \in Q PROVE t \in Q
  <2>1. CASE t = <<>>
    BY <2>1
  <2>2. CASE Starts(v, t)
    <3>1. PICK u \in Texts : t = v ++ u /\ Len(t) = Len(v) + Len(u)
      BY <2>2, StartAndRest
    <3>2. Len(u) < Len(t)
      BY <3>1, TextIs
    <3>3. u \in Q
      BY <1>1, <3>2
    <3> QED
      BY <3>1, <3>3
  <2>3. CASE t # <<>> /\ ~Starts(v, t)
    <3>1. PICK a, u \in Texts : t = a ++ u /\ Len(a) = 1 /\ Len(t) = Len(u) + 1
      BY <2>3, FirstAndRest
    <3>2. Len(u) < Len(t)
      BY <3>1, TextIs
    <3>3. u \in Q
      BY <1>1, <3>2
    <3> QED
      BY <2>3, <3>1, <3>3
  <2> QED
    BY <2>1, <2>2, <2>3
<1> QED
  BY <1>1, TextsByLength

----------------------------------------------------------------------------
\* Joining.

LEMMA NoneIs == <<>> \in Texts /\ Len(<<>>) = 0 /\ \A t \in Texts : <<>> ++ t = t /\ t ++ <<>> = t
  BY EmptySeq, ConcatEmptySeq DEF Texts, ++

LEMMA JoinThree ==
  ASSUME NEW a \in Texts, NEW b \in Texts, NEW c \in Texts
  PROVE  (a ++ b) ++ c = a ++ (b ++ c)
  BY ConcatAssociative DEF Texts, ++

LEMMA JoinSet ==
  ASSUME NEW a \in Texts, NEW b \in Texts
  PROVE  ToSet(a ++ b) = ToSet(a) \cup ToSet(b)
<1>1. /\ Len(a) \in Nat /\ Len(b) \in Nat /\ Len(a ++ b) = Len(a) + Len(b)
      /\ ToSet(a) = {a[i] : i \in 1..Len(a)} /\ ToSet(b) = {b[i] : i \in 1..Len(b)}
      /\ ToSet(a ++ b) = {(a ++ b)[i] : i \in 1..Len(a ++ b)}
      /\ \A i \in 1..Len(a) : (a ++ b)[i] = a[i]
      /\ \A i \in 1..Len(b) : (a ++ b)[Len(a) + i] = b[i]
  <2>1. /\ a ++ b \in Texts /\ Len(a ++ b) = Len(a) + Len(b)
        /\ \A i \in 1..Len(a) : (a ++ b)[i] = a[i]
        /\ \A i \in 1..Len(b) : (a ++ b)[Len(a) + i] = b[i]
    BY JoinIs
  <2>2. ToSet(a ++ b) = {(a ++ b)[i] : i \in 1..Len(a ++ b)}
    BY <2>1, TextIs
  <2> QED
    BY <2>1, <2>2, TextIs
<1>2. ASSUME NEW i \in 1..Len(a ++ b) PROVE (a ++ b)[i] \in ToSet(a) \cup ToSet(b)
  <2>1. CASE i <= Len(a)
    BY <1>1, <1>2, <2>1
  <2>2. CASE i > Len(a)
    <3>1. i - Len(a) \in 1..Len(b) /\ Len(a) + (i - Len(a)) = i
      BY <1>1, <1>2, <2>2
    <3> QED
      BY <1>1, <3>1
  <2> QED
    BY <1>1, <1>2, <2>1, <2>2
<1>3. ASSUME NEW i \in 1..Len(a) PROVE a[i] \in ToSet(a ++ b)
  <2>1. i \in 1..Len(a ++ b)
    BY <1>1, <1>3
  <2> QED
    BY <1>1, <2>1
<1>4. ASSUME NEW i \in 1..Len(b) PROVE b[i] \in ToSet(a ++ b)
  <2>1. Len(a) + i \in 1..Len(a ++ b)
    BY <1>1, <1>4
  <2> QED
    BY <1>1, <2>1
<1>5. ToSet(a) \subseteq ToSet(a ++ b)
  BY <1>1, <1>3
<1>6. ToSet(b) \subseteq ToSet(a ++ b)
  BY <1>1, <1>4
<1>7. ToSet(a ++ b) \subseteq ToSet(a) \cup ToSet(b)
  BY <1>1, <1>2
<1> QED
  BY <1>5, <1>6, <1>7

\* Typing.
LEMMA SubText ==
  ASSUME NEW v \in Texts, v # <<>>, NEW w \in Texts
  PROVE  \A t \in Texts : Substituted(t, v, w) \in Texts
<1> DEFINE Q == {t \in Texts : Substituted(t, v, w) \in Texts}
<1>1. <<>> \in Q
  BY NoneIs, SubNone
<1>2. ASSUME NEW u \in Texts, u \in Q PROVE v ++ u \in Q
  BY <1>2, SubHere, JoinIs
<1>3. ASSUME NEW a \in Texts, NEW u \in Texts, u \in Q, Len(a) = 1, ~Starts(v, a ++ u) PROVE a ++ u \in Q
  <2>1. Substituted(a ++ u, v, w) = a ++ Substituted(u, v, w)
    BY <1>3, SubBeyond
  <2>2. Substituted(u, v, w) \in Texts
    BY <1>3
  <2> QED
    BY <2>1, <2>2, JoinIs
<1> HIDE DEF Q
<1>4. \A t \in Texts : t \in Q
  BY <1>1, <1>2, <1>3, TextsByFinds
<1> QED
  BY <1>4 DEF Q

----------------------------------------------------------------------------
\* Starting with a text.

LEMMA StartsJoin ==
  ASSUME NEW v \in Texts, NEW u \in Texts
  PROVE  Starts(v, v ++ u)
<1>1. Len(v) \in Nat /\ Len(u) \in Nat
  BY TextIs
<1>2. Len(v ++ u) = Len(v) + Len(u) /\ \A i \in 1..Len(v) : (v ++ u)[i] = v[i]
  BY JoinIs
<1> QED
  BY <1>1, <1>2 DEF Starts

LEMMA StartsBehind ==
  ASSUME NEW a \in Texts, NEW x \in Texts, NEW u \in Texts
  PROVE  Starts(a ++ x, a ++ u) <=> Starts(x, u)
<1>1. /\ Len(a) \in Nat /\ Len(x) \in Nat /\ Len(u) \in Nat
      /\ Len(a ++ x) = Len(a) + Len(x) /\ Len(a ++ u) = Len(a) + Len(u)
      /\ \A i \in 1..Len(a) : (a ++ x)[i] = a[i] /\ (a ++ u)[i] = a[i]
      /\ \A i \in 1..Len(x) : (a ++ x)[Len(a) + i] = x[i]
      /\ \A i \in 1..Len(u) : (a ++ u)[Len(a) + i] = u[i]
  <2>1. Len(a) \in Nat /\ Len(x) \in Nat /\ Len(u) \in Nat
    BY TextIs
  <2>2. /\ Len(a ++ x) = Len(a) + Len(x) /\ \A i \in 1..Len(a) : (a ++ x)[i] = a[i]
        /\ \A i \in 1..Len(x) : (a ++ x)[Len(a) + i] = x[i]
    BY JoinIs
  <2>3. /\ Len(a ++ u) = Len(a) + Len(u) /\ \A i \in 1..Len(a) : (a ++ u)[i] = a[i]
        /\ \A i \in 1..Len(u) : (a ++ u)[Len(a) + i] = u[i]
    BY JoinIs
  <2> QED
    BY <2>1, <2>2, <2>3
<1>2. ASSUME Starts(a ++ x, a ++ u) PROVE Starts(x, u)
  <2>1. Len(x) <= Len(u)
    BY <1>1, <1>2 DEF Starts
  <2>2. ASSUME NEW j \in 1..Len(x) PROVE u[j] = x[j]
    <3>1. Len(a) + j \in 1..Len(a ++ x) /\ j \in 1..Len(u)
      BY <1>1, <2>1, <2>2
    <3>2. (a ++ u)[Len(a) + j] = (a ++ x)[Len(a) + j]
      BY <1>2, <3>1 DEF Starts
    <3> QED
      BY <1>1, <3>1, <3>2
  <2> QED
    BY <2>1, <2>2 DEF Starts
<1>3. ASSUME Starts(x, u) PROVE Starts(a ++ x, a ++ u)
  <2>1. Len(a ++ x) <= Len(a ++ u) /\ Len(x) <= Len(u)
    BY <1>1, <1>3 DEF Starts
  <2>2. ASSUME NEW j \in 1..Len(a ++ x) PROVE (a ++ u)[j] = (a ++ x)[j]
    <3>1. CASE j <= Len(a)
      <4>1. j \in 1..Len(a)
        BY <1>1, <2>2, <3>1
      <4> QED
        BY <1>1, <4>1
    <3>2. CASE j > Len(a)
      <4> DEFINE k == j - Len(a)
      <4>1. k \in 1..Len(x) /\ k \in 1..Len(u) /\ Len(a) + k = j
        BY <1>1, <2>1, <2>2, <3>2
      <4> HIDE DEF k
      <4>2. (a ++ u)[Len(a) + k] = u[k] /\ (a ++ x)[Len(a) + k] = x[k] /\ u[k] = x[k]
        BY <1>1, <1>3, <4>1 DEF Starts
      <4>3. (a ++ u)[Len(a) + k] = (a ++ x)[Len(a) + k]
        BY <4>2
      <4> QED
        BY <4>1, <4>3
    <3>3. j \in Nat
      BY <1>1, <2>2
    <3>4. j <= Len(a) \/ j > Len(a)
      BY <1>1, <3>3
    <3> QED
      BY <3>1, <3>2, <3>4
  <2> QED
    BY <2>1, <2>2 DEF Starts
<1> QED
  BY <1>2, <1>3

\* A text that starts a join starts its first part, or the first part starts it.
LEMMA StartsWithin ==
  ASSUME NEW v \in Texts, NEW p \in Texts, NEW u \in Texts, Starts(v, p ++ u)
  PROVE  /\ Len(v) <= Len(p) => Starts(v, p)
         /\ Len(p) <= Len(v) => Starts(p, v)
<1>1. /\ Len(p) \in Nat /\ Len(v) \in Nat /\ Len(u) \in Nat /\ Len(p ++ u) = Len(p) + Len(u)
      /\ \A i \in 1..Len(p) : (p ++ u)[i] = p[i]
  BY TextIs, JoinIs
<1>2. ASSUME Len(v) <= Len(p) PROVE Starts(v, p)
  <2>1. ASSUME NEW j \in 1..Len(v) PROVE p[j] = v[j]
    <3>1. j \in 1..Len(p)
      BY <1>1, <1>2, <2>1
    <3> QED
      BY <1>1, <2>1, <3>1 DEF Starts
  <2> QED
    BY <1>2, <2>1 DEF Starts
<1>3. ASSUME Len(p) <= Len(v) PROVE Starts(p, v)
  <2>1. ASSUME NEW j \in 1..Len(p) PROVE v[j] = p[j]
    <3>1. j \in 1..Len(v)
      BY <1>1, <1>3, <2>1
    <3> QED
      BY <1>1, <2>1, <3>1 DEF Starts
  <2> QED
    BY <1>3, <2>1 DEF Starts
<1> QED
  BY <1>2, <1>3

LEMMA StartSet ==
  ASSUME NEW p \in Texts, NEW v \in Texts, Starts(p, v)
  PROVE  ToSet(p) \subseteq ToSet(v)
<1>1. PICK u \in Texts : v = p ++ u
  BY StartAndRest
<1> QED
  BY <1>1, JoinSet

\* A text that starts a piece and what follows starts with the piece.
LEMMA StartsPiece ==
  ASSUME NEW v \in Texts, v # <<>>, NEW a \in Texts, Len(a) = 1, NEW u \in Texts, Starts(v, a ++ u)
  PROVE  \E x \in Texts : v = a ++ x /\ Len(v) = Len(x) + 1 /\ Starts(x, u)
<1>1. Len(v) \in Nat \ {0}
  BY TextIs
<1>2. Starts(a, v)
  <2>1. Len(a) <= Len(v)
    BY <1>1
  <2> QED
    BY <2>1, StartsWithin
<1>3. PICK x \in Texts : v = a ++ x /\ Len(v) = Len(a) + Len(x)
  BY <1>2, StartAndRest
<1>4. Starts(x, u)
  BY <1>3, StartsBehind
<1>5. Len(v) = Len(x) + 1
  BY <1>3, TextIs
<1> QED
  BY <1>3, <1>4, <1>5

----------------------------------------------------------------------------
\* Occurring in a text.

LEMMA OccursNowhere ==
  ASSUME NEW v \in Texts
  PROVE  ~Occurs(v, <<>>)
  BY NoneIs, OccursAt

LEMMA OccursBehind ==
  ASSUME NEW v \in Texts, NEW a \in Texts, NEW u \in Texts, Occurs(v, u)
  PROVE  Occurs(v, a ++ u)
<1>1. PICK i \in 1..Len(u) : At(v, u, i)
  BY OccursAt
<1>2. Len(a) \in Nat /\ Len(u) \in Nat /\ a ++ u \in Texts /\ Len(a ++ u) = Len(a) + Len(u)
  BY TextIs, JoinIs
<1>3. i \in 1..Len(u) + 1 /\ Len(a) + i \in 1..Len(a ++ u)
  BY <1>1, <1>2
<1>4. At(v, a ++ u, Len(a) + i)
  BY <1>1, <1>3, AtBehind
<1> QED
  BY <1>2, <1>3, <1>4, OccursAt

LEMMA OccursFirst ==
  ASSUME NEW v \in Texts, v # <<>>, NEW t \in Texts, Starts(v, t)
  PROVE  Occurs(v, t)
<1>1. Len(v) \in Nat \ {0} /\ Len(t) \in Nat /\ Len(v) <= Len(t)
  BY TextIs DEF Starts
<1>2. 1 \in 1..Len(t) /\ At(v, t, 1)
  BY <1>1, AtFirst
<1> QED
  BY <1>2, OccursAt

LEMMA OccursNext ==
  ASSUME NEW v \in Texts, v # <<>>, NEW a \in Texts, Len(a) = 1, NEW u \in Texts
  PROVE  Occurs(v, a ++ u) <=> Starts(v, a ++ u) \/ Occurs(v, u)
<1>1. Len(u) \in Nat /\ a ++ u \in Texts /\ Len(a ++ u) = 1 + Len(u) /\ Len(v) \in Nat \ {0}
  <2>1. a ++ u \in Texts /\ Len(a ++ u) = Len(a) + Len(u)
    BY JoinIs
  <2> QED
    BY <2>1, TextIs
<1>2. ASSUME Occurs(v, a ++ u) PROVE Starts(v, a ++ u) \/ Occurs(v, u)
  <2>1. PICK i \in 1..Len(a ++ u) : At(v, a ++ u, i)
    BY <1>1, <1>2, OccursAt
  <2>2. CASE i = 1
    BY <1>1, <2>1, <2>2, AtFirst
  <2>3. CASE i # 1
    <3> DEFINE j == i - 1
    <3>1. j \in 1..Len(u) /\ j \in 1..Len(u) + 1 /\ Len(a) + j = i
      BY <1>1, <2>1, <2>3
    <3> HIDE DEF j
    <3>2. At(v, u, j)
      BY <2>1, <3>1, AtBehind
    <3> QED
      BY <3>1, <3>2, OccursAt
  <2> QED
    BY <2>2, <2>3
<1> QED
  BY <1>1, <1>2, OccursBehind, OccursFirst

----------------------------------------------------------------------------
\* The pieces that tokens and fields are written with.
Open == "["
Close == "]"
Under == "_"
Stroke == "1"
Colon == ": "
Break == "\n"

LEMMA PiecesAre ==
  /\ {Open, Close, Under, Stroke, Colon, Break} \subseteq Pieces
  /\ {Open, Close, Under, Stroke} \subseteq TokenWords
  /\ Kinds \subseteq TokenWords /\ Kinds \subseteq Pieces
  /\ Brackets = {Open, Close} /\ Separators = {Colon, Break}
  /\ \A kind \in Kinds : kind # Open /\ kind # Close
  /\ Open # Close /\ Under \notin Brackets /\ Stroke \notin Brackets
  /\ Colon # Break /\ Colon \notin TokenWords /\ Break \notin TokenWords
<1>1. TokenWords \cup Separators \cup {"[truncated]", "made up"} \subseteq Pieces
  BY ReasonerAssumption
<1>2. Brackets = {Open, Close} /\ Separators = {Colon, Break}
  BY DEF Separators, Brackets, Open, Close, Colon, Break
<1>3. {Open, Close, Under, Stroke} \subseteq TokenWords /\ Kinds \subseteq TokenWords
  BY <1>2 DEF TokenWords, Under, Stroke
<1>4. \A kind \in Kinds : kind # Open /\ kind # Close
  BY DEF Kinds, Open, Close
<1>5. /\ Open # Close /\ Under \notin Brackets /\ Stroke \notin Brackets
      /\ Colon # Break /\ Colon \notin TokenWords /\ Break \notin TokenWords
  BY DEF Separators, Brackets, Open, Close, Colon, Break, Under, Stroke, TokenWords, Kinds
<1> QED
  BY <1>1, <1>2, <1>3, <1>4, <1>5

\* Tokens, and words that no token can be taken for.

Tok(T) ==
  /\ T \in Texts /\ Len(T) >= 2 /\ T[1] = Open /\ T[Len(T)] = Close
  /\ \A i \in 2..Len(T) : T[i] # Open
  /\ \A i \in 1..(Len(T) - 1) : T[i] # Close
  /\ ToSet(T) \subseteq TokenWords
Word(v) == v \in Texts /\ ToSet(v) \cap Brackets = {} /\ ~(ToSet(v) \subseteq TokenWords)

\* What is left of a token behind one of its pieces.
TokenEnd(x) == x = <<>> \/ (ToSet(x) \subseteq TokenWords /\ Open \notin ToSet(x) /\ Close \in ToSet(x) /\ x[Len(x)] = Close)

LEMMA WordIs ==
  ASSUME NEW v, Word(v)
  PROVE  v \in Texts /\ v # <<>> /\ Open \notin ToSet(v) /\ Close \notin ToSet(v)
<1>1. ToSet(<<>>) = {}
  BY NoneIs, TextIs
<1> QED
  BY <1>1, PiecesAre DEF Word

LEMMA ThreeAre ==
  ASSUME NEW a \in Pieces, NEW b \in Pieces, NEW c \in Pieces
  PROVE  \E t \in Texts : t = <<a, b, c>> /\ Len(t) = 3 /\ t[1] = a /\ t[2] = b /\ t[3] = c
<1>1. <<a, b, c>> = Append(Append(Append(<<>>, a), b), c)
  OBVIOUS
<1>2. Append(Append(Append(<<>>, a), b), c) \in Seq(Pieces)
  BY AppendProperties, EmptySeq
<1>3. <<a, b, c>> \in Texts
  BY <1>1, <1>2 DEF Texts
<1>4. Len(<<a, b, c>>) = 3 /\ <<a, b, c>>[1] = a /\ <<a, b, c>>[2] = b /\ <<a, b, c>>[3] = c
  OBVIOUS
<1> QED
  BY <1>3, <1>4

LEMMA TokenIs ==
  ASSUME NEW kind \in Kinds, NEW n \in Nat
  PROVE  Tok(Token(kind, n)) /\ Len(Token(kind, n)) = n + 4 /\ Token(kind, n)[2] = kind
<1> DEFINE T == Token(kind, n)
<1>1. /\ kind \in Pieces /\ kind # Open /\ kind # Close /\ kind \in TokenWords
      /\ {Open, Close, Under, Stroke} \subseteq Pieces /\ {Open, Close, Under, Stroke} \subseteq TokenWords
      /\ Open # Close /\ Under # Open /\ Under # Close /\ Stroke # Open /\ Stroke # Close
  BY PiecesAre
<1>2. PICK A \in Texts : A = <<Open, kind, Under>> /\ Len(A) = 3 /\ A[1] = Open /\ A[2] = kind /\ A[3] = Under
  <2>1. Open \in Pieces /\ Under \in Pieces /\ kind \in Pieces
    BY <1>1
  <2> QED
    BY ONLY <2>1, ThreeAre
<1>3. PICK B \in Texts : B = [i \in 1..n |-> Stroke] /\ Len(B) = n /\ \A i \in 1..n : B[i] = Stroke
  <2> DEFINE B == [i \in 1..n |-> Stroke]
  <2>1. B \in [1..n -> Pieces]
    BY <1>1
  <2>2. B \in Seq(Pieces) /\ Len(B) = n
    BY <2>1, SeqDef, LenProperties
  <2>3. \A i \in 1..n : B[i] = Stroke
    OBVIOUS
  <2> QED
    BY <2>2, <2>3 DEF Texts
<1>4. PICK C \in Texts : C = <<Close>> /\ Len(C) = 1 /\ C[1] = Close
  BY <1>1, OneIs
<1>5. T = (A ++ B) ++ C
  BY <1>2, <1>3, <1>4, Zenon DEF Token, Open, Close, Under, Stroke, ++
<1> HIDE DEF T
<1>6. A ++ B \in Texts /\ Len(A ++ B) = 3 + n
  <2>1. A ++ B \in Texts /\ Len(A ++ B) = Len(A) + Len(B)
    BY ONLY A \in Texts, B \in Texts, JoinIs
  <2>2. Len(A) = 3 /\ Len(B) = n
    BY <1>2, <1>3
  <2> QED
    BY ONLY <2>1, <2>2
<1>7. T \in Texts /\ Len(T) = n + 4
  <2>1. T \in Texts /\ Len(T) = Len(A ++ B) + Len(C)
    BY <1>4, <1>5, <1>6, JoinIs
  <2> QED
    BY <1>4, <1>6, <2>1
<1>8. T[1] = Open /\ T[2] = kind /\ T[3] = Under
  <2>1. A \in Texts /\ B \in Texts /\ C \in Texts
    OBVIOUS
  <2>2. \A i \in 1..Len(A) : (A ++ B)[i] = A[i]
    BY ONLY <2>1, JoinIs
  <2>3. \A i \in 1..Len(A ++ B) : T[i] = (A ++ B)[i]
    BY ONLY <1>5, <1>6, <2>1, JoinIs
  <2>0. Len(A) = 3
    BY <1>2
  <2>4. \A i \in 1..3 : T[i] = A[i]
    BY ONLY <1>6, <2>0, <2>2, <2>3, n \in Nat
  <2>5. A[1] = Open /\ A[2] = kind /\ A[3] = Under
    BY <1>2
  <2> QED
    BY ONLY <2>4, <2>5
<1>9. ASSUME NEW i \in 4..(n + 3) PROVE T[i] = Stroke
  <2> DEFINE j == i - 3
  <2>1. j \in 1..Len(B) /\ j \in 1..n /\ 3 + j = i /\ i \in 1..Len(A ++ B)
    BY <1>3, <1>6, <1>9
  <2> HIDE DEF j
  <2>2. (A ++ B)[Len(A) + j] = B[j]
    BY ONLY A \in Texts, B \in Texts, <2>1, JoinIs
  <2>3. T[i] = (A ++ B)[i]
    BY <1>4, <1>5, <1>6, <2>1, JoinIs
  <2> QED
    BY <1>2, <1>3, <2>1, <2>2, <2>3
<1>10. T[n + 4] = Close
  <2>1. 1 \in 1..Len(C)
    BY <1>4
  <2>2. T[Len(A ++ B) + 1] = C[1]
    BY <1>4, <1>5, <1>6, <2>1, JoinIs
  <2>3. Len(A ++ B) + 1 = n + 4
    BY <1>6
  <2> QED
    BY <1>4, <2>2, <2>3
<1>11. ASSUME NEW i \in 1..(n + 4)
       PROVE  \/ i = 1 /\ T[i] = Open
              \/ i = n + 4 /\ T[i] = Close
              \/ i \in 2..(n + 3) /\ T[i] \in {kind, Under, Stroke}
  <2>1. i = 1 \/ i = 2 \/ i = 3 \/ i \in 4..(n + 3) \/ i = n + 4
    BY <1>11
  <2>2. CASE i = 1
    BY <1>8, <2>2
  <2>3. CASE i = 2 \/ i = 3
    BY <1>8, <2>3
  <2>4. CASE i \in 4..(n + 3)
    BY <1>9, <2>4
  <2>5. CASE i = n + 4
    BY <1>10, <2>5
  <2> QED
    BY <2>1, <2>2, <2>3, <2>4, <2>5
<1>12. \A i \in 2..(n + 4) : T[i] # Open
  BY <1>1, <1>11
<1>13. \A i \in 1..(n + 3) : T[i] # Close
  BY <1>1, <1>11
<1>14. ToSet(T) \subseteq TokenWords
  <2>1. \A i \in 1..(n + 4) : T[i] \in TokenWords
    BY <1>1, <1>11
  <2> QED
    BY <1>7, <2>1, TextIs
<1>15. Tok(T)
  <2>1. Len(T) >= 2 /\ T[Len(T)] = Close /\ Len(T) - 1 = n + 3
    BY <1>7, <1>10
  <2> QED
    BY <1>7, <1>8, <1>12, <1>13, <1>14, <2>1 DEF Tok
<1> QED
  BY <1>7, <1>8, <1>15 DEF T

LEMMA TokIs ==
  ASSUME NEW T, Tok(T)
  PROVE  T \in Texts /\ T # <<>> /\ Len(T) \in Nat /\ Len(T) >= 2 /\ T[1] = Open /\ T[Len(T)] = Close
         /\ (\A i \in 2..Len(T) : T[i] # Open) /\ \A i \in 1..(Len(T) - 1) : T[i] # Close
  BY TextIs DEF Tok

LEMMA EndRest ==
  ASSUME NEW a \in Texts, Len(a) = 1, NEW x \in Texts, TokenEnd(a ++ x)
  PROVE  TokenEnd(x)
<1>1. CASE x = <<>>
  BY <1>1 DEF TokenEnd
<1>2. CASE x # <<>>
  <2>1. Len(x) \in Nat \ {0} /\ Len(x) \in 1..Len(x)
    BY <1>2, TextIs
  <2>2. Len(a ++ x) = Len(a) + Len(x) /\ (a ++ x)[Len(a) + Len(x)] = x[Len(x)]
    BY <2>1, JoinIs
  <2>3. ToSet(a ++ x) = ToSet(a) \cup ToSet(x)
    BY JoinSet
  <2>4. a ++ x # <<>>
    BY <2>1, <2>2, NoneIs
  <2>5. x[Len(x)] \in ToSet(x)
    BY <2>1, TextIs
  <2> QED
    BY <2>2, <2>3, <2>4, <2>5 DEF TokenEnd
<1> QED
  BY <1>1, <1>2

LEMMA TokRest ==
  ASSUME NEW a \in Texts, Len(a) = 1, NEW x \in Texts, Tok(a ++ x)
  PROVE  TokenEnd(x) /\ x # <<>> /\ Open \notin ToSet(x)
<1> DEFINE T == a ++ x
<1>1. /\ Len(x) \in Nat /\ \A i \in 1..Len(x) : T[Len(a) + i] = x[i]
  BY TextIs, JoinIs
<1>2. Len(T) = 1 + Len(x) /\ T \in Texts
  <2>1. T \in Texts /\ Len(T) = Len(a) + Len(x)
    BY JoinIs
  <2> QED
    BY <2>1
<1>3. /\ T[Len(T)] = Close /\ Len(T) >= 2 /\ ToSet(T) \subseteq TokenWords
      /\ \A i \in 2..Len(T) : T[i] # Open
  BY DEF Tok
<1> HIDE DEF T
<1>4. Len(x) >= 1
  BY <1>1, <1>2, <1>3
<1>5. ASSUME NEW i \in 1..Len(x) PROVE x[i] # Open
  <2>1. 1 + i \in 2..Len(T) /\ T[1 + i] = x[i]
    BY <1>1, <1>2, <1>5
  <2> QED
    BY <1>3, <2>1
<1>6. x[Len(x)] = Close
  <2>1. Len(x) \in 1..Len(x)
    BY <1>1, <1>4
  <2>2. T[Len(a) + Len(x)] = x[Len(x)]
    BY <1>1, <2>1
  <2> QED
    BY <1>2, <1>3, <2>2
<1>7. ToSet(x) = {x[i] : i \in 1..Len(x)} /\ x # <<>>
  BY <1>4, TextIs, NoneIs
<1>8. ToSet(x) \subseteq TokenWords
  BY <1>3, JoinSet DEF T
<1>9. Close \in ToSet(x)
  BY <1>1, <1>4, <1>6, <1>7
<1> QED
  BY <1>5, <1>6, <1>7, <1>8, <1>9 DEF TokenEnd

\* A word behind a token is not found in the token.
LEMMA WordBehind ==
  ASSUME NEW w, Word(w), NEW T, Tok(T), NEW u \in Texts, Occurs(w, T ++ u)
  PROVE  Occurs(w, u)
<1>1. /\ w \in Texts /\ w # <<>> /\ Open \notin ToSet(w) /\ Close \notin ToSet(w)
      /\ T \in Texts /\ Len(T) \in Nat /\ Len(T) >= 2 /\ T[Len(T)] = Close
  BY WordIs, TokIs
<1>2. /\ T ++ u \in Texts /\ Len(T ++ u) = Len(T) + Len(u) /\ Len(u) \in Nat /\ Len(w) \in Nat \ {0}
      /\ \A i \in 1..Len(T) : (T ++ u)[i] = T[i]
      /\ ToSet(w) = {w[i] : i \in 1..Len(w)} /\ ToSet(T) = {T[i] : i \in 1..Len(T)}
  BY <1>1, TextIs, JoinIs
<1>3. PICK i \in 1..Len(T ++ u) : At(w, T ++ u, i)
  BY <1>1, <1>2, OccursAt
<1>4. CASE i > Len(T)
  <2> DEFINE j == i - Len(T)
  <2>1. j \in 1..Len(u) /\ j \in 1..Len(u) + 1 /\ Len(T) + j = i
    BY <1>1, <1>2, <1>3, <1>4
  <2> HIDE DEF j
  <2>2. At(w, u, j)
    BY <1>1, <1>3, <2>1, AtBehind
  <2> QED
    BY <1>1, <2>1, <2>2, OccursAt
<1>5. CASE i <= Len(T)
  <2>1. \A j \in 1..Len(w) : (T ++ u)[i + j - 1] = w[j]
    BY <1>3 DEF At
  <2>2. CASE i + Len(w) - 1 >= Len(T)
    <3> DEFINE j == Len(T) - i + 1
    <3>1. j \in 1..Len(w) /\ i + j - 1 = Len(T) /\ Len(T) \in 1..Len(T)
      BY <1>1, <1>2, <1>3, <1>5, <2>2
    <3> HIDE DEF j
    <3>2. w[j] = Close
      BY <1>1, <1>2, <2>1, <3>1
    <3> QED
      BY <1>1, <1>2, <3>1, <3>2
  <2>3. CASE i + Len(w) - 1 < Len(T)
    <3>1. ASSUME NEW j \in 1..Len(w) PROVE w[j] \in ToSet(T)
      <4>1. i + j - 1 \in 1..Len(T)
        BY <1>1, <1>2, <1>3, <2>3
      <4>2. w[j] = T[i + j - 1]
        BY <1>2, <2>1, <4>1
      <4> QED
        BY <1>2, <4>1, <4>2
    <3> QED
      BY <1>2, <3>1 DEF Word, Tok
  <2> QED
    BY <1>1, <1>2, <1>3, <2>2, <2>3
<1> QED
  BY <1>1, <1>2, <1>3, <1>4, <1>5

\* No token starts another one.
LEMMA TokensEqual ==
  ASSUME NEW S, Tok(S), NEW T, Tok(T), Starts(S, T)
  PROVE  S = T
<1>1. /\ S \in Texts /\ Len(S) \in Nat /\ Len(S) >= 2 /\ S[Len(S)] = Close
      /\ T \in Texts /\ Len(T) \in Nat /\ \A i \in 1..(Len(T) - 1) : T[i] # Close
  BY TokIs
<1>2. Len(S) <= Len(T) /\ \A j \in 1..Len(S) : T[j] = S[j]
  BY DEF Starts
<1>3. Len(S) = Len(T)
  BY <1>1, <1>2
<1> QED
  BY <1>1, <1>2, <1>3, SeqEqual DEF Texts

LEMMA TokensApart ==
  ASSUME NEW S, Tok(S), NEW T, Tok(T), NEW u \in Texts, Starts(S, T ++ u)
  PROVE  S = T
<1>1. S \in Texts /\ T \in Texts /\ Len(S) \in Nat /\ Len(T) \in Nat
  BY TokIs
<1>2. Starts(S, T) \/ Starts(T, S)
  BY <1>1, StartsWithin
<1> QED
  BY <1>2, TokensEqual

LEMMA TokenBehind ==
  ASSUME NEW S, Tok(S), NEW T, Tok(T), S # T, NEW u \in Texts, Occurs(S, T ++ u)
  PROVE  Occurs(S, u)
<1>1. /\ S \in Texts /\ Len(S) \in Nat /\ Len(S) >= 2 /\ S[1] = Open
      /\ T \in Texts /\ Len(T) \in Nat /\ Len(T) >= 2 /\ \A i \in 2..Len(T) : T[i] # Open
  BY TokIs
<1>2. /\ T ++ u \in Texts /\ Len(T ++ u) = Len(T) + Len(u) /\ Len(u) \in Nat
      /\ \A i \in 1..Len(T) : (T ++ u)[i] = T[i]
  BY <1>1, TextIs, JoinIs
<1>3. PICK i \in 1..Len(T ++ u) : At(S, T ++ u, i)
  BY <1>1, <1>2, OccursAt
<1>4. CASE i > Len(T)
  <2> DEFINE j == i - Len(T)
  <2>1. j \in 1..Len(u) /\ j \in 1..Len(u) + 1 /\ Len(T) + j = i
    BY <1>1, <1>2, <1>3, <1>4
  <2> HIDE DEF j
  <2>2. At(S, u, j)
    BY <1>1, <1>3, <2>1, AtBehind
  <2> QED
    BY <1>1, <2>1, <2>2, OccursAt
<1>5. CASE i = 1
  BY <1>1, <1>2, <1>3, <1>5, AtFirst, TokensApart
<1>6. CASE i \in 2..Len(T)
  <2>1. 1 \in 1..Len(S) /\ i + 1 - 1 = i /\ i \in 1..Len(T)
    BY <1>1, <1>6
  <2>2. (T ++ u)[i + 1 - 1] = S[1]
    BY <1>3, <2>1 DEF At
  <2> QED
    BY <1>1, <1>2, <1>6, <2>1, <2>2
<1> QED
  BY <1>1, <1>2, <1>3, <1>4, <1>5, <1>6

----------------------------------------------------------------------------
\* What replacing shows.

\* A text that does not occur is not replaced.
LEMMA SubKept ==
  ASSUME NEW v \in Texts, v # <<>>, NEW w
  PROVE  \A t \in Texts : ~Occurs(v, t) => Substituted(t, v, w) = t
<1> DEFINE Q == {t \in Texts : ~Occurs(v, t) => Substituted(t, v, w) = t}
<1>1. <<>> \in Q
  BY NoneIs, SubNone
<1>2. ASSUME NEW u \in Texts, u \in Q PROVE v ++ u \in Q
  <2>1. v ++ u \in Texts
    BY JoinIs
  <2>2. Occurs(v, v ++ u)
    BY <2>1, StartsJoin, OccursFirst
  <2> QED
    BY <2>1, <2>2
<1>3. ASSUME NEW a \in Texts, NEW u \in Texts, u \in Q, Len(a) = 1, ~Starts(v, a ++ u) PROVE a ++ u \in Q
  <2>1. a ++ u \in Texts
    BY JoinIs
  <2>2. Substituted(a ++ u, v, w) = a ++ Substituted(u, v, w)
    BY <1>3, SubBeyond
  <2>3. Occurs(v, u) => Occurs(v, a ++ u)
    BY OccursBehind
  <2> QED
    BY <1>3, <2>1, <2>2, <2>3
<1> HIDE DEF Q
<1>4. \A t \in Texts : t \in Q
  BY <1>1, <1>2, <1>3, TextsByFinds
<1> QED
  BY <1>4 DEF Q

LEMMA SubWhole ==
  ASSUME NEW v \in Texts, v # <<>>, NEW w \in Texts
  PROVE  Substituted(v, v, w) = w
<1>1. Substituted(v ++ <<>>, v, w) = w ++ Substituted(<<>>, v, w)
  BY NoneIs, SubHere
<1>2. Substituted(<<>>, v, w) = <<>>
  BY SubNone
<1>3. v ++ <<>> = v /\ w ++ <<>> = w
  BY NoneIs
<1> QED
  BY <1>1, <1>2, <1>3

LEMMA SubLaws ==
  ASSUME NEW v \in Texts, v # <<>>, NEW w \in Texts
  PROVE  /\ \A t \in Texts : Substituted(t, v, w) \in Texts
         /\ Substituted(<<>>, v, w) = <<>>
         /\ \A t \in Texts : Substituted(v ++ t, v, w) = w ++ Substituted(t, v, w)
         /\ \A a, t \in Texts : Len(a) = 1 /\ ~Starts(v, a ++ t) =>
              Substituted(a ++ t, v, w) = a ++ Substituted(t, v, w)
<1>1. \A t \in Texts : Substituted(t, v, w) \in Texts
  BY SubText
<1>2. \A t \in Texts : Substituted(v ++ t, v, w) = w ++ Substituted(t, v, w)
  BY SubHere
<1>3. ASSUME NEW a \in Texts, NEW t \in Texts, Len(a) = 1, ~Starts(v, a ++ t)
      PROVE  Substituted(a ++ t, v, w) = a ++ Substituted(t, v, w)
  BY <1>3, SubBeyond
<1> QED
  BY <1>1, <1>2, <1>3, SubNone

\* Replacing goes on behind a text when what is replaced does not reach over its end.
LEMMA SubApart ==
  ASSUME NEW v \in Texts, v # <<>>, NEW w \in Texts, NEW m \in Texts,
         \A p \in Texts : Starts(v, p ++ m) => Starts(v, p)
  PROVE  \A p \in Texts : Substituted(p ++ m, v, w) = Substituted(p, v, w) ++ Substituted(m, v, w)
<1> DEFINE Sub(t) == Substituted(t, v, w)
           Q == {p \in Texts : Sub(p ++ m) = Sub(p) ++ Sub(m)}
<1>1. /\ \A t \in Texts : Sub(t) \in Texts
      /\ Sub(<<>>) = <<>>
      /\ \A t \in Texts : Sub(v ++ t) = w ++ Sub(t)
      /\ \A a, t \in Texts : Len(a) = 1 /\ ~Starts(v, a ++ t) => Sub(a ++ t) = a ++ Sub(t)
  BY SubLaws
<1> HIDE DEF Sub
<1>2. <<>> \in Q
  <2>1. <<>> ++ m = m /\ <<>> ++ Sub(m) = Sub(m) /\ <<>> \in Texts
    BY <1>1, NoneIs
  <2> QED
    BY <1>1, <2>1
<1>3. ASSUME NEW u \in Texts, u \in Q PROVE v ++ u \in Q
  <2>1. v ++ u \in Texts /\ u ++ m \in Texts
    BY JoinIs
  <2>2. (v ++ u) ++ m = v ++ (u ++ m)
    BY JoinThree
  <2>3. ASSUME NEW x \in Texts, NEW y \in Texts PROVE (w ++ x) ++ y = w ++ (x ++ y)
    BY JoinThree
  <2>4. (w ++ Sub(u)) ++ Sub(m) = w ++ (Sub(u) ++ Sub(m))
    BY <1>1, <2>3
  <2> QED
    BY <1>1, <1>3, <2>1, <2>2, <2>4
<1>4. ASSUME NEW a \in Texts, NEW u \in Texts, u \in Q, Len(a) = 1, ~Starts(v, a ++ u) PROVE a ++ u \in Q
  <2>1. a ++ u \in Texts /\ u ++ m \in Texts
    BY JoinIs
  <2>2. (a ++ u) ++ m = a ++ (u ++ m)
    BY JoinThree
  <2>3. ASSUME NEW x \in Texts, NEW y \in Texts PROVE (a ++ x) ++ y = a ++ (x ++ y)
    BY JoinThree
  <2>4. (a ++ Sub(u)) ++ Sub(m) = a ++ (Sub(u) ++ Sub(m))
    BY <1>1, <2>3
  <2>5. ~Starts(v, a ++ (u ++ m))
    BY <1>4, <2>1, <2>2
  <2>6. Sub(a ++ (u ++ m)) = a ++ Sub(u ++ m) /\ Sub(a ++ u) = a ++ Sub(u)
    BY <1>1, <1>4, <2>1, <2>5
  <2>7. Sub(u ++ m) = Sub(u) ++ Sub(m)
    BY <1>4
  <2> QED
    BY <2>1, <2>2, <2>4, <2>6, <2>7
<1> HIDE DEF Q
<1>5. \A p \in Texts : p \in Q
  BY <1>2, <1>3, <1>4, TextsByFinds
<1> QED
  BY <1>5 DEF Q, Sub

\* A text that shows a piece the replaced one has not is replaced on both sides of it.
Apart(s, v) == Len(s) = 1 /\ s[1] \notin ToSet(v)
Around(p, s, r) == p ++ (s ++ r)

LEMMA SubAround ==
  ASSUME NEW v \in Texts, v # <<>>, NEW w \in Texts, NEW s \in Texts, Apart(s, v),
         NEW r \in Texts
  PROVE  \A p \in Texts : Substituted(Around(p, s, r), v, w)
                            = Around(Substituted(p, v, w), s, Substituted(r, v, w))
<1>0. Len(s) = 1 /\ s[1] \notin ToSet(v)
  BY DEF Apart
<1>1. ASSUME NEW x \in Texts, x # <<>>, Starts(x, s ++ r) PROVE s[1] \in ToSet(x)
  <2>1. PICK y \in Texts : x = s ++ y
    BY <1>0, <1>1, StartsPiece
  <2>2. ToSet(x) = ToSet(s) \cup ToSet(y)
    BY <2>1, JoinSet
  <2>3. s[1] \in ToSet(s)
    BY <1>0, TextIs
  <2> QED
    BY <2>2, <2>3
<1>2. PICK m \in Texts : m = s ++ r
  BY JoinIs
<1>3. ASSUME NEW p \in Texts, Starts(v, p ++ m) PROVE Starts(v, p)
  <2>1. Len(v) \in Nat /\ Len(p) \in Nat
    BY TextIs
  <2>2. CASE Len(v) <= Len(p)
    BY <1>3, <2>2, StartsWithin
  <2>3. CASE Len(v) > Len(p)
    <3>1. Starts(p, v)
      BY <1>3, <2>1, <2>3, StartsWithin
    <3>2. PICK x \in Texts : v = p ++ x /\ Len(v) = Len(p) + Len(x)
      BY <3>1, StartAndRest
    <3>3. x # <<>> /\ ToSet(v) = ToSet(p) \cup ToSet(x)
      BY <2>1, <2>3, <3>2, TextIs, JoinSet
    <3>4. Starts(x, m)
      BY <1>3, <3>2, StartsBehind
    <3> QED
      BY <1>0, <1>1, <1>2, <3>3, <3>4
  <2> QED
    BY <2>1, <2>2, <2>3
<1>4. Substituted(m, v, w) = s ++ Substituted(r, v, w)
  <2>1. ~Starts(v, s ++ r)
    BY <1>0, <1>1
  <2> DEFINE Sub(t) == Substituted(t, v, w)
  <2>2. \A a, t \in Texts : Len(a) = 1 /\ ~Starts(v, a ++ t) => Sub(a ++ t) = a ++ Sub(t)
    BY SubLaws
  <2> HIDE DEF Sub
  <2>3. Sub(s ++ r) = s ++ Sub(r)
    BY <1>0, <2>1, <2>2
  <2> QED
    BY <1>2, <2>3 DEF Sub
<1>5. \A p \in Texts : Substituted(p ++ m, v, w) = Substituted(p, v, w) ++ Substituted(m, v, w)
  BY <1>3, SubApart
<1> QED
  BY <1>2, <1>4, <1>5 DEF Around

\* What starts a text with tokens in it, and is no part of a token, started the
\* text before.
LEMMA StartKept ==
  ASSUME NEW v \in Texts, v # <<>>, NEW T, Tok(T)
  PROVE  \A u, x \in Texts : Open \notin ToSet(x) /\ Starts(x, Substituted(u, v, T)) => Starts(x, u)
<1> DEFINE Sub(t) == Substituted(t, v, T)
           Q == {u \in Texts : \A x \in Texts : Open \notin ToSet(x) /\ Starts(x, Sub(u)) => Starts(x, u)}
<1>0. T \in Texts /\ Len(T) \in Nat /\ Len(T) >= 2 /\ T[1] = Open
  BY TokIs
<1>1. /\ \A t \in Texts : Sub(t) \in Texts
      /\ Sub(<<>>) = <<>>
      /\ \A t \in Texts : Sub(v ++ t) = T ++ Sub(t)
      /\ \A a, t \in Texts : Len(a) = 1 /\ ~Starts(v, a ++ t) => Sub(a ++ t) = a ++ Sub(t)
  BY <1>0, SubLaws
<1> HIDE DEF Sub
<1>2. \A t \in Texts : Starts(<<>>, t)
  BY NoneIs, TextIs DEF Starts
<1>3. <<>> \in Q
  BY <1>1, NoneIs
<1>4. ASSUME NEW u \in Texts, u \in Q PROVE v ++ u \in Q
  <2>1. v ++ u \in Texts
    BY JoinIs
  <2>2. ASSUME NEW x \in Texts, x # <<>>, Starts(x, T ++ Sub(u)) PROVE Open \in ToSet(x)
    <3>1. Len(x) \in Nat \ {0} /\ 1 \in 1..Len(x) /\ 1 \in 1..Len(T)
      BY <1>0, <2>2, TextIs
    <3>2. x[1] = (T ++ Sub(u))[1] /\ (T ++ Sub(u))[1] = T[1]
      <4>1. PICK y \in Texts : y = Sub(u)
        BY <1>1
      <4>2. \A i \in 1..Len(T) : (T ++ y)[i] = T[i]
        BY <1>0, JoinIs
      <4>3. \A i \in 1..Len(x) : (T ++ y)[i] = x[i]
        BY <2>2, <4>1 DEF Starts
      <4> QED
        BY <3>1, <4>1, <4>2, <4>3
    <3>3. x[1] \in ToSet(x)
      BY <3>1, TextIs
    <3> QED
      BY <1>0, <3>2, <3>3
  <2> QED
    BY <1>1, <1>2, <2>1, <2>2
<1>5. ASSUME NEW a \in Texts, NEW u \in Texts, u \in Q, Len(a) = 1, ~Starts(v, a ++ u) PROVE a ++ u \in Q
  <2>1. a ++ u \in Texts /\ Sub(a ++ u) = a ++ Sub(u)
    BY <1>1, <1>5, JoinIs
  <2>2. ASSUME NEW x \in Texts, x # <<>>, Open \notin ToSet(x), Starts(x, a ++ Sub(u)) PROVE Starts(x, a ++ u)
    <3>1. PICK y \in Texts : x = a ++ y /\ Len(x) = Len(y) + 1 /\ Starts(y, Sub(u))
      BY <1>1, <1>5, <2>2, StartsPiece
    <3>2. Open \notin ToSet(y)
      BY <2>2, <3>1, JoinSet
    <3>3. Starts(y, u)
      BY <1>5, <3>1, <3>2
    <3> QED
      BY <3>1, <3>3, StartsBehind
  <2> QED
    BY <1>2, <2>1, <2>2
<1> HIDE DEF Q
<1>6. \A u \in Texts : u \in Q
  BY <1>3, <1>4, <1>5, TextsByFinds
<1> QED
  BY <1>6 DEF Q, Sub

\* The value that a token stands for is not found any more, and no other word is
\* found that was not.
LEMMA Hidden ==
  ASSUME NEW v \in Texts, v # <<>>, NEW T, Tok(T), NEW w, Word(w)
  PROVE  \A t \in Texts : (w = v \/ ~Occurs(w, t)) => ~Occurs(w, Substituted(t, v, T))
<1> DEFINE Sub(t) == Substituted(t, v, T)
           Q == {t \in Texts : (w = v \/ ~Occurs(w, t)) => ~Occurs(w, Sub(t))}
<1>0. T \in Texts /\ w \in Texts /\ w # <<>> /\ Open \notin ToSet(w)
  BY TokIs, WordIs
<1>1. /\ \A t \in Texts : Sub(t) \in Texts
      /\ Sub(<<>>) = <<>>
      /\ \A t \in Texts : Sub(v ++ t) = T ++ Sub(t)
      /\ \A a, t \in Texts : Len(a) = 1 /\ ~Starts(v, a ++ t) => Sub(a ++ t) = a ++ Sub(t)
      /\ \A t, x \in Texts : Open \notin ToSet(x) /\ Starts(x, Sub(t)) => Starts(x, t)
  BY <1>0, SubLaws, StartKept
<1> HIDE DEF Sub
<1>2. <<>> \in Q
  BY <1>0, <1>1, NoneIs, OccursNowhere
<1>3. ASSUME NEW u \in Texts, u \in Q PROVE v ++ u \in Q
  <2>1. v ++ u \in Texts
    BY JoinIs
  <2>2. Occurs(w, u) => Occurs(w, v ++ u)
    BY <1>0, OccursBehind
  <2>3. Occurs(w, T ++ Sub(u)) => Occurs(w, Sub(u))
    BY <1>1, WordBehind
  <2> QED
    BY <1>1, <1>3, <2>1, <2>2, <2>3
<1>4. ASSUME NEW a \in Texts, NEW u \in Texts, u \in Q, Len(a) = 1, ~Starts(v, a ++ u) PROVE a ++ u \in Q
  <2>1. a ++ u \in Texts /\ Sub(a ++ u) = a ++ Sub(u)
    BY <1>1, <1>4, JoinIs
  <2>2. Occurs(w, a ++ u) <=> Starts(w, a ++ u) \/ Occurs(w, u)
    BY <1>0, <1>4, OccursNext
  <2>3. Occurs(w, a ++ Sub(u)) <=> Starts(w, a ++ Sub(u)) \/ Occurs(w, Sub(u))
    BY <1>0, <1>1, <1>4, OccursNext
  <2>4. ASSUME Starts(w, a ++ Sub(u)) PROVE Starts(w, a ++ u)
    <3>1. PICK y \in Texts : w = a ++ y /\ Len(w) = Len(y) + 1 /\ Starts(y, Sub(u))
      BY <1>0, <1>1, <1>4, <2>4, StartsPiece
    <3>2. Open \notin ToSet(y)
      BY <1>0, <3>1, JoinSet
    <3> QED
      BY <1>1, <3>1, <3>2, StartsBehind
  <2> QED
    BY <1>4, <2>1, <2>2, <2>3, <2>4
<1> HIDE DEF Q
<1>5. \A t \in Texts : t \in Q
  BY <1>2, <1>3, <1>4, TextsByFinds
<1> QED
  BY <1>5 DEF Q, Sub

\* A token is given once: replacing shows no other one.
LEMMA NoOtherToken ==
  ASSUME NEW v \in Texts, v # <<>>, NEW T, Tok(T), NEW S, Tok(S), S # T
  PROVE  \A t \in Texts : ~Occurs(S, t) => ~Occurs(S, Substituted(t, v, T))
<1> DEFINE Sub(t) == Substituted(t, v, T)
           Q == {t \in Texts : ~Occurs(S, t) => ~Occurs(S, Sub(t))}
<1>0. T \in Texts /\ S \in Texts /\ S # <<>>
  BY TokIs
<1>1. /\ \A t \in Texts : Sub(t) \in Texts
      /\ Sub(<<>>) = <<>>
      /\ \A t \in Texts : Sub(v ++ t) = T ++ Sub(t)
      /\ \A a, t \in Texts : Len(a) = 1 /\ ~Starts(v, a ++ t) => Sub(a ++ t) = a ++ Sub(t)
      /\ \A t, x \in Texts : Open \notin ToSet(x) /\ Starts(x, Sub(t)) => Starts(x, t)
  BY <1>0, SubLaws, StartKept
<1> HIDE DEF Sub
<1>2. <<>> \in Q
  BY <1>0, <1>1, NoneIs, OccursNowhere
<1>3. ASSUME NEW u \in Texts, u \in Q PROVE v ++ u \in Q
  <2>1. v ++ u \in Texts
    BY JoinIs
  <2>2. Occurs(S, u) => Occurs(S, v ++ u)
    BY <1>0, OccursBehind
  <2>3. Occurs(S, T ++ Sub(u)) => Occurs(S, Sub(u))
    BY <1>1, TokenBehind
  <2> QED
    BY <1>1, <1>3, <2>1, <2>2, <2>3
<1>4. ASSUME NEW a \in Texts, NEW u \in Texts, u \in Q, Len(a) = 1, ~Starts(v, a ++ u) PROVE a ++ u \in Q
  <2>1. a ++ u \in Texts /\ Sub(a ++ u) = a ++ Sub(u)
    BY <1>1, <1>4, JoinIs
  <2>2. Occurs(S, a ++ u) <=> Starts(S, a ++ u) \/ Occurs(S, u)
    BY <1>0, <1>4, OccursNext
  <2>3. Occurs(S, a ++ Sub(u)) <=> Starts(S, a ++ Sub(u)) \/ Occurs(S, Sub(u))
    BY <1>0, <1>1, <1>4, OccursNext
  <2>4. ASSUME Starts(S, a ++ Sub(u)) PROVE Starts(S, a ++ u)
    <3>1. PICK y \in Texts : S = a ++ y /\ Len(S) = Len(y) + 1 /\ Starts(y, Sub(u))
      BY <1>0, <1>1, <1>4, <2>4, StartsPiece
    <3>2. Open \notin ToSet(y)
      BY <1>4, <3>1, TokRest
    <3> QED
      BY <1>1, <3>1, <3>2, StartsBehind
  <2> QED
    BY <1>4, <2>1, <2>2, <2>3, <2>4
<1> HIDE DEF Q
<1>5. \A t \in Texts : t \in Q
  BY <1>2, <1>3, <1>4, TextsByFinds
<1> QED
  BY <1>5 DEF Q, Sub

\* A token that was not in a text is turned back.
LEMMA SubBack ==
  ASSUME NEW v \in Texts, v # <<>>, NEW T, Tok(T)
  PROVE  \A t \in Texts : ~Occurs(T, t) => Substituted(Substituted(t, v, T), T, v) = t
<1> DEFINE Sub(t) == Substituted(t, v, T)
           Back(t) == Substituted(t, T, v)
           Q == {t \in Texts : ~Occurs(T, t) => Back(Sub(t)) = t}
<1>0. T \in Texts /\ T # <<>>
  BY TokIs
<1>1. /\ \A t \in Texts : Sub(t) \in Texts
      /\ Sub(<<>>) = <<>>
      /\ \A t \in Texts : Sub(v ++ t) = T ++ Sub(t)
      /\ \A a, t \in Texts : Len(a) = 1 /\ ~Starts(v, a ++ t) => Sub(a ++ t) = a ++ Sub(t)
      /\ \A t, x \in Texts : Open \notin ToSet(x) /\ Starts(x, Sub(t)) => Starts(x, t)
  BY <1>0, SubLaws, StartKept
<1>2. /\ Back(<<>>) = <<>>
      /\ \A t \in Texts : Back(T ++ t) = v ++ Back(t)
      /\ \A a, t \in Texts : Len(a) = 1 /\ ~Starts(T, a ++ t) => Back(a ++ t) = a ++ Back(t)
  BY <1>0, SubLaws
<1> HIDE DEF Sub, Back
<1>3. <<>> \in Q
  BY <1>1, <1>2, NoneIs
<1>4. ASSUME NEW u \in Texts, u \in Q PROVE v ++ u \in Q
  <2>1. v ++ u \in Texts
    BY JoinIs
  <2>2. Occurs(T, u) => Occurs(T, v ++ u)
    BY <1>0, OccursBehind
  <2> QED
    BY <1>1, <1>2, <1>4, <2>1, <2>2
<1>5. ASSUME NEW a \in Texts, NEW u \in Texts, u \in Q, Len(a) = 1, ~Starts(v, a ++ u) PROVE a ++ u \in Q
  <2>1. a ++ u \in Texts /\ Sub(a ++ u) = a ++ Sub(u)
    BY <1>1, <1>5, JoinIs
  <2>2. Occurs(T, a ++ u) <=> Starts(T, a ++ u) \/ Occurs(T, u)
    BY <1>0, <1>5, OccursNext
  <2>3. ASSUME Starts(T, a ++ Sub(u)) PROVE Starts(T, a ++ u)
    <3>1. PICK y \in Texts : T = a ++ y /\ Len(T) = Len(y) + 1 /\ Starts(y, Sub(u))
      BY <1>0, <1>1, <1>5, <2>3, StartsPiece
    <3>2. Open \notin ToSet(y)
      BY <1>5, <3>1, TokRest
    <3> QED
      BY <1>1, <3>1, <3>2, StartsBehind
  <2>4. Sub(u) \in Texts
    BY <1>1
  <2>5. ASSUME ~Occurs(T, a ++ u) PROVE Back(a ++ Sub(u)) = a ++ Back(Sub(u)) /\ Back(Sub(u)) = u
    BY <1>2, <1>5, <2>2, <2>3, <2>4, <2>5
  <2> QED
    BY <2>1, <2>5
<1> HIDE DEF Q
<1>6. \A t \in Texts : t \in Q
  BY <1>3, <1>4, <1>5, TextsByFinds
<1> QED
  BY <1>6 DEF Q, Sub, Back

----------------------------------------------------------------------------
\* Turning tokens back, in any order.

\* A token is found behind any text without its first piece.
LEMMA SubBehind ==
  ASSUME NEW T, Tok(T), NEW w \in Texts, NEW u \in Texts
  PROVE  \A p \in Texts : Open \notin ToSet(p) => Substituted(p ++ u, T, w) = p ++ Substituted(u, T, w)
<1> DEFINE Back(t) == Substituted(t, T, w)
           Q == {p \in Texts : Open \notin ToSet(p) => Back(p ++ u) = p ++ Back(u)}
<1>0. T \in Texts /\ T # <<>> /\ T[1] = Open /\ Len(T) \in Nat /\ Len(T) >= 2
  BY TokIs
<1>1. /\ \A t \in Texts : Back(t) \in Texts
      /\ \A a, t \in Texts : Len(a) = 1 /\ ~Starts(T, a ++ t) => Back(a ++ t) = a ++ Back(t)
  BY <1>0, SubLaws
<1> HIDE DEF Back
<1>2. ASSUME NEW p \in Texts, \A q \in Texts : Len(q) < Len(p) => q \in Q PROVE p \in Q
  <2>1. CASE p = <<>>
    BY <1>1, <2>1, NoneIs
  <2>2. ASSUME p # <<>>, Open \notin ToSet(p) PROVE Back(p ++ u) = p ++ Back(u)
    <3>1. PICK a, q \in Texts : p = a ++ q /\ Len(a) = 1 /\ Len(p) = Len(q) + 1
      BY <2>2, FirstAndRest
    <3>2. Len(q) < Len(p)
      BY <3>1, TextIs
    <3>3. ToSet(p) = ToSet(a) \cup ToSet(q)
      BY <3>1, JoinSet
    <3>4. Back(q ++ u) = q ++ Back(u)
      BY <1>2, <2>2, <3>2, <3>3
    <3>5. q ++ u \in Texts
      BY JoinIs
    <3>6. (a ++ q) ++ u = a ++ (q ++ u)
      BY JoinThree
    <3>7. ASSUME NEW y \in Texts PROVE (a ++ q) ++ y = a ++ (q ++ y)
      BY JoinThree
    <3>8. (a ++ q) ++ Back(u) = a ++ (q ++ Back(u))
      BY <1>1, <3>7
    <3>9. ~Starts(T, a ++ (q ++ u))
      <4>1. ASSUME NEW y \in Texts, Starts(T, a ++ y) PROVE FALSE
        <5>1. PICK x \in Texts : T = a ++ x
          BY <1>0, <3>1, <4>1, StartsPiece
        <5>2. 1 \in 1..Len(a)
          BY <3>1
        <5>3. T[1] = a[1]
          BY <5>1, <5>2, JoinIs
        <5>4. a[1] \in ToSet(a)
          BY <5>2, TextIs
        <5> QED
          BY <1>0, <2>2, <3>3, <5>3, <5>4
      <4> QED
        BY <3>5, <4>1
    <3>10. Back(a ++ (q ++ u)) = a ++ Back(q ++ u)
      BY <1>1, <3>1, <3>5, <3>9
    <3> QED
      BY <3>1, <3>4, <3>6, <3>8, <3>10
  <2> QED
    BY <2>1, <2>2
<1> HIDE DEF Q
<1>3. \A p \in Texts : p \in Q
  BY <1>2, TextsByLength
<1> QED
  BY <1>3 DEF Q, Back

\* One token is not found in another.
LEMMA SubOther ==
  ASSUME NEW S, Tok(S), NEW T, Tok(T), S # T, NEW w \in Texts, NEW u \in Texts
  PROVE  Substituted(S ++ u, T, w) = S ++ Substituted(u, T, w)
<1> DEFINE Back(t) == Substituted(t, T, w)
<1>0. T \in Texts /\ T # <<>> /\ S \in Texts /\ S # <<>>
  BY TokIs
<1>1. /\ \A t \in Texts : Back(t) \in Texts
      /\ \A a, t \in Texts : Len(a) = 1 /\ ~Starts(T, a ++ t) => Back(a ++ t) = a ++ Back(t)
  BY <1>0, SubLaws
<1>2. PICK a, x \in Texts : S = a ++ x /\ Len(a) = 1
  BY <1>0, FirstAndRest
<1>3. Open \notin ToSet(x)
  BY <1>2, TokRest
<1>4. Back(x ++ u) = x ++ Back(u)
  BY <1>3, SubBehind
<1> HIDE DEF Back
<1>5. x ++ u \in Texts /\ (a ++ x) ++ u = a ++ (x ++ u)
  BY JoinIs, JoinThree
<1>6. ASSUME NEW y \in Texts PROVE (a ++ x) ++ y = a ++ (x ++ y)
  BY JoinThree
<1>7. ~Starts(T, S ++ u)
  BY TokensApart
<1>8. Back(a ++ (x ++ u)) = a ++ Back(x ++ u)
  BY <1>1, <1>2, <1>5, <1>7
<1>9. Back(S ++ u) = S ++ Back(u)
  BY <1>1, <1>2, <1>4, <1>5, <1>6, <1>8
<1> QED
  BY <1>9 DEF Back

\* The end of a token that starts a text with a word for a token, started it before.
LEMMA EndKept ==
  ASSUME NEW T, Tok(T), NEW v, Word(v)
  PROVE  \A u, x \in Texts : TokenEnd(x) /\ Starts(x, Substituted(u, T, v)) => Starts(x, u)
<1> DEFINE Back(t) == Substituted(t, T, v)
           Q == {u \in Texts : \A x \in Texts : TokenEnd(x) /\ Starts(x, Back(u)) => Starts(x, u)}
<1>0. T \in Texts /\ T # <<>> /\ v \in Texts /\ Close \notin ToSet(v) /\ ~(ToSet(v) \subseteq TokenWords)
  BY TokIs, WordIs DEF Word
<1>1. /\ \A t \in Texts : Back(t) \in Texts
      /\ Back(<<>>) = <<>>
      /\ \A t \in Texts : Back(T ++ t) = v ++ Back(t)
      /\ \A a, t \in Texts : Len(a) = 1 /\ ~Starts(T, a ++ t) => Back(a ++ t) = a ++ Back(t)
  BY <1>0, SubLaws
<1> HIDE DEF Back
<1>2. \A t \in Texts : Starts(<<>>, t)
  BY NoneIs, TextIs DEF Starts
<1>3. <<>> \in Q
  BY <1>1, NoneIs
<1>4. ASSUME NEW u \in Texts, u \in Q PROVE T ++ u \in Q
  <2>1. T ++ u \in Texts
    BY <1>0, JoinIs
  <2>2. ASSUME NEW x \in Texts, x # <<>>, TokenEnd(x), NEW y \in Texts, Starts(x, v ++ y) PROVE FALSE
    <3>1. Len(x) \in Nat /\ Len(v) \in Nat
      BY <1>0, TextIs
    <3>2. Starts(x, v) \/ Starts(v, x)
      BY <1>0, <2>2, <3>1, StartsWithin
    <3>3. ToSet(x) \subseteq ToSet(v) \/ ToSet(v) \subseteq ToSet(x)
      BY <1>0, <3>2, StartSet
    <3> QED
      BY <1>0, <2>2, <3>3 DEF TokenEnd
  <2>3. Back(T ++ u) = v ++ Back(u) /\ Back(u) \in Texts
    BY <1>1
  <2>4. \A x \in Texts : TokenEnd(x) /\ Starts(x, Back(T ++ u)) => x = <<>>
    BY <2>2, <2>3
  <2> QED
    BY <1>2, <2>1, <2>4
<1>5. ASSUME NEW a \in Texts, NEW u \in Texts, u \in Q, Len(a) = 1, ~Starts(T, a ++ u) PROVE a ++ u \in Q
  <2>1. a ++ u \in Texts /\ Back(a ++ u) = a ++ Back(u)
    BY <1>1, <1>5, JoinIs
  <2>2. ASSUME NEW x \in Texts, x # <<>>, TokenEnd(x), Starts(x, a ++ Back(u)) PROVE Starts(x, a ++ u)
    <3>1. PICK y \in Texts : x = a ++ y /\ Len(x) = Len(y) + 1 /\ Starts(y, Back(u))
      BY <1>1, <1>5, <2>2, StartsPiece
    <3>2. TokenEnd(y)
      BY <1>5, <2>2, <3>1, EndRest
    <3>3. Starts(y, u)
      BY <1>5, <3>1, <3>2
    <3> QED
      BY <3>1, <3>3, StartsBehind
  <2> QED
    BY <1>2, <2>1, <2>2
<1> HIDE DEF Q
<1>6. \A u \in Texts : u \in Q
  BY <1>0, <1>3, <1>4, <1>5, TextsByFinds
<1> QED
  BY <1>6 DEF Q, Back

LEMMA NoStart ==
  ASSUME NEW S, Tok(S), NEW T, Tok(T), NEW v, Word(v), NEW a \in Texts, Len(a) = 1, NEW u \in Texts,
         Starts(T, a ++ Substituted(u, S, v))
  PROVE  Starts(T, a ++ u)
<1>1. S \in Texts /\ S # <<>> /\ T \in Texts /\ T # <<>> /\ v \in Texts
  BY TokIs, WordIs
<1>2. Substituted(u, S, v) \in Texts
  BY <1>1, SubText
<1>3. PICK y \in Texts : T = a ++ y /\ Len(T) = Len(y) + 1 /\ Starts(y, Substituted(u, S, v))
  BY <1>1, <1>2, StartsPiece
<1>4. TokenEnd(y)
  BY <1>3, TokRest
<1>5. Starts(y, u)
  BY <1>3, <1>4, EndKept
<1> QED
  BY <1>3, <1>5, StartsBehind

LEMMA TokenLaw ==
  ASSUME NEW S, Tok(S), NEW T, Tok(T), S # T, NEW w \in Texts
  PROVE  \A t \in Texts : Substituted(S ++ t, T, w) = S ++ Substituted(t, T, w)
  BY SubOther

LEMMA WordLaw ==
  ASSUME NEW T, Tok(T), NEW v, Word(v), NEW w \in Texts
  PROVE  \A t \in Texts : Substituted(v ++ t, T, w) = v ++ Substituted(t, T, w)
<1>1. v \in Texts /\ Open \notin ToSet(v)
  BY WordIs
<1>2. ASSUME NEW t \in Texts PROVE Substituted(v ++ t, T, w) = v ++ Substituted(t, T, w)
  BY <1>1, SubBehind
<1> QED
  BY <1>2

LEMMA TurnedFirst ==
  ASSUME NEW S, Tok(S), NEW T, Tok(T), S # T, NEW v, Word(v), NEW w, Word(w), NEW u \in Texts
  PROVE  Substituted(Substituted(u, S, v), T, w) = Substituted(Substituted(u, T, w), S, v) =>
         Substituted(Substituted(S ++ u, S, v), T, w) = Substituted(Substituted(S ++ u, T, w), S, v)
<1> DEFINE One(t) == Substituted(t, S, v)
           Two(t) == Substituted(t, T, w)
<1>1. S \in Texts /\ S # <<>> /\ T \in Texts /\ T # <<>> /\ v \in Texts /\ w \in Texts /\ Open \notin ToSet(v)
  BY TokIs, WordIs
<1>2. /\ \A t \in Texts : One(t) \in Texts
      /\ \A t \in Texts : One(S ++ t) = v ++ One(t)
  BY <1>1, SubLaws
<1>3. /\ \A t \in Texts : Two(t) \in Texts
      /\ \A t \in Texts : Two(S ++ t) = S ++ Two(t)
      /\ \A t \in Texts : Two(v ++ t) = v ++ Two(t)
  <2>1. \A t \in Texts : Two(t) \in Texts
    BY <1>1, SubText
  <2>2. w \in Texts
    BY <1>1
  <2>3. \A t \in Texts : Two(S ++ t) = S ++ Two(t)
    BY <2>2, TokenLaw
  <2>4. \A t \in Texts : Two(v ++ t) = v ++ Two(t)
    BY <2>2, WordLaw
  <2> QED
    BY <2>1, <2>3, <2>4
<1> HIDE DEF One, Two
<1>4. ASSUME Two(One(u)) = One(Two(u)) PROVE Two(One(S ++ u)) = One(Two(S ++ u))
  <2>1. One(u) \in Texts /\ Two(u) \in Texts
    BY <1>2, <1>3
  <2>2. One(S ++ u) = v ++ One(u) /\ Two(S ++ u) = S ++ Two(u)
    BY <1>2, <1>3
  <2>3. Two(v ++ One(u)) = v ++ Two(One(u)) /\ One(S ++ Two(u)) = v ++ One(Two(u))
    BY <1>2, <1>3, <2>1
  <2> QED
    BY <1>4, <2>2, <2>3
<1> QED
  BY <1>4 DEF One, Two

LEMMA SubsCommute ==
  ASSUME NEW S, Tok(S), NEW T, Tok(T), S # T, NEW v, Word(v), NEW w, Word(w)
  PROVE  \A t \in Texts :
           Substituted(Substituted(t, S, v), T, w) = Substituted(Substituted(t, T, w), S, v)
<1> DEFINE Q == {t \in Texts :
                   Substituted(Substituted(t, S, v), T, w) = Substituted(Substituted(t, T, w), S, v)}
<1>1. S \in Texts /\ S # <<>> /\ T \in Texts /\ T # <<>> /\ v \in Texts /\ w \in Texts
  BY TokIs, WordIs
<1>2. ASSUME NEW t \in Texts, \A u \in Texts : Len(u) < Len(t) => u \in Q PROVE t \in Q
  <2>1. CASE t = <<>>
    <3>1. Substituted(<<>>, S, v) = <<>> /\ Substituted(<<>>, T, w) = <<>>
      BY <1>1, SubLaws
    <3> QED
      BY <2>1, <3>1, NoneIs
  <2>2. CASE Starts(S, t)
    <3>1. PICK u \in Texts : t = S ++ u /\ Len(t) = Len(S) + Len(u)
      BY <1>1, <2>2, StartAndRest
    <3>2. Len(S) \in Nat \ {0} /\ Len(u) \in Nat
      BY <1>1, TextIs
    <3>3. Len(u) < Len(t)
      BY <3>1, <3>2
    <3>4. u \in Q
      BY <1>2, <3>3
    <3>5. Substituted(Substituted(S ++ u, S, v), T, w) = Substituted(Substituted(S ++ u, T, w), S, v)
      BY <3>4, TurnedFirst
    <3> QED
      BY <3>1, <3>5
  <2>3. CASE Starts(T, t)
    <3>1. PICK u \in Texts : t = T ++ u /\ Len(t) = Len(T) + Len(u)
      BY <1>1, <2>3, StartAndRest
    <3>2. Len(T) \in Nat \ {0} /\ Len(u) \in Nat
      BY <1>1, TextIs
    <3>3. Len(u) < Len(t)
      BY <3>1, <3>2
    <3>4. u \in Q
      BY <1>2, <3>3
    <3>5. Substituted(Substituted(T ++ u, T, w), S, v) = Substituted(Substituted(T ++ u, S, v), T, w)
      BY <3>4, TurnedFirst
    <3> QED
      BY <3>1, <3>5
  <2>4. CASE t # <<>> /\ ~Starts(S, t) /\ ~Starts(T, t)
    <3>1. PICK a, u \in Texts : t = a ++ u /\ Len(a) = 1 /\ Len(t) = Len(u) + 1
      BY <2>4, FirstAndRest
    <3>2. Len(u) < Len(t)
      BY <3>1, TextIs
    <3>3. u \in Q
      BY <1>2, <3>2
    <3> DEFINE One(x) == Substituted(x, S, v)
               Two(x) == Substituted(x, T, w)
    <3>4. ~Starts(T, a ++ One(u)) /\ ~Starts(S, a ++ Two(u))
      BY <2>4, <3>1, NoStart
    <3>5. /\ \A x \in Texts : One(x) \in Texts
          /\ \A b, x \in Texts : Len(b) = 1 /\ ~Starts(S, b ++ x) => One(b ++ x) = b ++ One(x)
      BY <1>1, SubLaws
    <3>6. /\ \A x \in Texts : Two(x) \in Texts
          /\ \A b, x \in Texts : Len(b) = 1 /\ ~Starts(T, b ++ x) => Two(b ++ x) = b ++ Two(x)
      BY <1>1, SubLaws
    <3>7. Two(One(u)) = One(Two(u))
      BY <3>3
    <3>8. t \in Q <=> Two(One(t)) = One(Two(t))
      OBVIOUS
    <3> HIDE DEF One, Two, Q
    <3>9. One(t) = a ++ One(u) /\ Two(t) = a ++ Two(u)
      BY <2>4, <3>1, <3>5, <3>6
    <3>10. Two(a ++ One(u)) = a ++ Two(One(u)) /\ One(a ++ Two(u)) = a ++ One(Two(u))
      BY <3>1, <3>4, <3>5, <3>6
    <3> QED
      BY <3>7, <3>8, <3>9, <3>10
  <2> QED
    BY <2>1, <2>2, <2>3, <2>4
<1> HIDE DEF Q
<1>3. \A t \in Texts : t \in Q
  BY <1>2, TextsByLength
<1> QED
  BY <1>3 DEF Q

----------------------------------------------------------------------------
\* Folds: what one step after the other makes of a sequence.

LEMMA SmallestNumber ==
  ASSUME NEW N, N \subseteq Nat, N # {}
  PROVE  \E n \in N : \A m \in N : n <= m
<1> DEFINE S == Nat \ N
<1>1. SUFFICES ASSUME ~ \E n \in N : \A m \in N : n <= m PROVE FALSE
  OBVIOUS
<1>2. ASSUME NEW n \in Nat, \A m \in Nat : m < n => m \in S PROVE n \in S
  BY <1>1, <1>2
<1> HIDE DEF S
<1>3. Nat \subseteq S
  BY <1>2, AllNumbers
<1> QED
  BY <1>3 DEF S

LEMMA MaxIs ==
  ASSUME NEW n \in Nat, NEW s \in SUBSET (1..n), s # {}
  PROVE  Max(s) \in s /\ \A x \in s : Max(s) >= x
<1> DEFINE N == {n - x : x \in s}
<1>1. N \subseteq Nat /\ N # {}
  <2>1. \A x \in s : x \in 1..n
    OBVIOUS
  <2>2. \A x \in 1..n : n - x \in Nat
    OBVIOUS
  <2> QED
    BY <2>1, <2>2
<1>2. PICK k \in N : \A m \in N : k <= m
  <2> HIDE DEF N
  <2> QED
    BY <1>1, SmallestNumber
<1>3. PICK x \in s : k = n - x
  BY <1>2
<1>4. ASSUME NEW y \in s PROVE x >= y
  <2>1. n - y \in N /\ x \in 1..n /\ y \in 1..n
    OBVIOUS
  <2> HIDE DEF N
  <2>2. k <= n - y
    BY <1>2, <2>1
  <2> QED
    BY <1>3, <2>1, <2>2
<1> QED
  BY <1>3, <1>4 DEF Max

LEMMA MaxOfFirst ==
  ASSUME NEW k \in Nat \ {0}
  PROVE  Max(1..k) = k /\ (1..k) \ {k} = 1..(k - 1)
<1>1. Max(1..k) \in 1..k /\ \A x \in 1..k : Max(1..k) >= x
  <2>1. 1..k # {} /\ k \in Nat
    OBVIOUS
  <2> QED
    BY <2>1, MaxIs
<1> QED
  BY <1>1

\* One step of either fold.
Applied(y, p, how) == IF how = 1 THEN Tokenised(y, p[1], p[2]) ELSE Substituted(y, p[1], p[2])
FoldIs(how, base, ps, n, f) ==
  f = [s \in SUBSET (1..n) |->
         IF s = {} THEN base ELSE Applied(f[s \ {Max(s)}], ps[Max(s)], how)]

LEMMA FoldExists ==
  ASSUME NEW how, NEW base, NEW ps, NEW n \in Nat
  PROVE  \E f : FoldIs(how, base, ps, n, f)
<1> DEFINE Small(k) == {s \in SUBSET (1..n) : Cardinality(s) <= k}
           OneStep(f, D) == [s \in D |->
              IF s = {} THEN base ELSE Applied(f[s \ {Max(s)}], ps[Max(s)], how)]
           Upto == {k \in Nat : \E f : f = OneStep(f, Small(k))}
<1>1. ASSUME NEW s \in SUBSET (1..n) PROVE IsFiniteSet(s) /\ Cardinality(s) \in Nat
  <2>1. IsFiniteSet(1..n)
    BY FS_Interval, 1 \in Int, n \in Int
  <2>2. IsFiniteSet(s)
    BY <2>1, FS_Subset
  <2> QED
    BY <2>2, FS_CardinalityType
<1>2. 0 \in Upto
  <2> DEFINE f == [s \in Small(0) |-> base]
  <2>1. \A s \in Small(0) : s = {}
    BY <1>1, FS_EmptySet
  <2>2. f = OneStep(f, Small(0))
    BY <2>1
  <2> QED
    BY <2>2
<1>3. ASSUME NEW k \in Nat, k \in Upto PROVE k + 1 \in Upto
  <2>0. PICK f : f = OneStep(f, Small(k))
    BY <1>3
  <2> DEFINE g == OneStep(f, Small(k + 1))
  <2>1. ASSUME NEW s \in Small(k + 1), s # {}
        PROVE  g[s \ {Max(s)}] = f[s \ {Max(s)}]
    <3> DEFINE t == s \ {Max(s)}
    <3>1. Max(s) \in s /\ s \in SUBSET (1..n) /\ Cardinality(s) <= k + 1 /\ IsFiniteSet(s)
      BY <1>1, <2>1, MaxIs
    <3>2. Cardinality(t) = Cardinality(s) - 1
      BY <3>1, FS_RemoveElement
    <3>3. t \in Small(k)
      <4>1. t \in SUBSET (1..n)
        BY <3>1
      <4>2. Cardinality(t) \in Nat /\ Cardinality(s) \in Nat
        BY <1>1, <3>1, <4>1
      <4> HIDE DEF t
      <4>3. Cardinality(t) <= k
        BY <3>1, <3>2, <4>2
      <4> QED
        BY <4>1, <4>3
    <3>4. t \in Small(k + 1)
      BY <1>1, <3>3
    <3>5. f[t] = IF t = {} THEN base ELSE Applied(f[t \ {Max(t)}], ps[Max(t)], how)
      BY <2>0, <3>3
    <3>6. g[t] = IF t = {} THEN base ELSE Applied(f[t \ {Max(t)}], ps[Max(t)], how)
      BY <3>4
    <3> QED
      BY <3>5, <3>6
  <2>2. g = OneStep(g, Small(k + 1))
    <3> DEFINE h == OneStep(g, Small(k + 1))
    <3>1. \A s \in Small(k + 1) : g[s] = h[s]
      BY <2>1
    <3> QED
      BY <3>1
  <2>3. \E h : h = OneStep(h, Small(k + 1))
    BY <2>2
  <2> HIDE DEF OneStep, Small
  <2> QED
    BY <2>3
<1>4. Small(n) = SUBSET (1..n)
  <2>1. ASSUME NEW s \in SUBSET (1..n) PROVE Cardinality(s) <= n
    <3>1. IsFiniteSet(1..n) /\ Cardinality(1..n) = n
      BY FS_Interval
    <3> QED
      BY <3>1, FS_Subset
  <2> QED
    BY <2>1
<1>5. n \in Upto
  <2> HIDE DEF Upto
  <2>1. Nat \subseteq Upto
    BY <1>2, <1>3, CountUp
  <2> QED
    BY <2>1
<1>6. \E f : f = OneStep(f, Small(n))
  <2> HIDE DEF OneStep, Small
  <2> QED
    BY <1>5
<1>7. \E f : f = OneStep(f, SUBSET (1..n))
  <2> HIDE DEF OneStep, Small
  <2> QED
    BY <1>4, <1>6
<1> QED
  BY <1>7 DEF FoldIs

\* The values of a fold on the first k, for every k.
LEMMA FoldSteps ==
  ASSUME NEW how, NEW base, NEW ps, NEW n \in Nat, NEW f, FoldIs(how, base, ps, n, f)
  PROVE  /\ f[1..0] = base
         /\ \A k \in 1..n : f[1..k] = Applied(f[1..(k - 1)], ps[k], how)
<1>1. ASSUME NEW s \in SUBSET (1..n)
      PROVE  f[s] = IF s = {} THEN base ELSE Applied(f[s \ {Max(s)}], ps[Max(s)], how)
  BY <1>1 DEF FoldIs
<1>2. 1..0 = {} /\ 1..0 \in SUBSET (1..n)
  OBVIOUS
<1>3. ASSUME NEW k \in 1..n PROVE f[1..k] = Applied(f[1..(k - 1)], ps[k], how)
  <2>1. 1..k \in SUBSET (1..n) /\ 1..k # {} /\ k \in Nat \ {0}
    OBVIOUS
  <2>2. Max(1..k) = k /\ (1..k) \ {k} = 1..(k - 1)
    BY <2>1, MaxOfFirst
  <2> QED
    BY <1>1, <2>1, <2>2
<1> QED
  BY <1>1, <1>2, <1>3

\* Replacing one after the other.
Runs(a, t, ps) ==
  /\ a[0] = t
  /\ \A k \in 1..Len(ps) : a[k] = Substituted(a[k - 1], ps[k][1], ps[k][2])

LEMMA ReplacedRuns ==
  ASSUME NEW t, NEW S, NEW ps \in Seq(S)
  PROVE  \E a : Runs(a, t, ps) /\ Replaced(t, ps) = a[Len(ps)]
<1> DEFINE Folded(g) == g = [s \in SUBSET DOMAIN ps |->
                  IF s = {} THEN t ELSE Substituted(g[s \ {Max(s)}], ps[Max(s)][1], ps[Max(s)][2])]
           f == CHOOSE g : Folded(g)
           n == Len(ps)
<1>0. PICK how : how = 0
  OBVIOUS
<1>1. n \in Nat /\ DOMAIN ps = 1..n
  BY LenProperties
<1>2. Replaced(t, ps) = f[DOMAIN ps]
  BY Zenon DEF Replaced, FoldLeft, MapThenFoldSet
<1>3. ASSUME NEW g
      PROVE  FoldIs(how, t, ps, n, g) <=> Folded(g)
  BY <1>0, <1>1 DEF FoldIs, Applied
<1> HIDE DEF n, Folded
<1>4. Folded(f)
  <2>1. \E g : FoldIs(how, t, ps, n, g)
    BY <1>1, FoldExists
  <2> QED
    BY <1>3, <2>1
<1> HIDE DEF f
<1>5. FoldIs(how, t, ps, n, f)
  BY <1>3, <1>4
<1>5a. ASSUME NEW m \in Nat, NEW g, FoldIs(how, t, ps, m, g)
      PROVE  g[1..0] = t /\ \A k \in 1..m : g[1..k] = Applied(g[1..(k - 1)], ps[k], how)
  BY <1>5a, FoldSteps
<1> DEFINE a == [k \in 0..n |-> f[1..k]]
<1>6. f[1..0] = t /\ \A k \in 1..n : f[1..k] = Substituted(f[1..(k - 1)], ps[k][1], ps[k][2])
  <2>1. f[1..0] = t /\ \A k \in 1..n : f[1..k] = Applied(f[1..(k - 1)], ps[k], how)
    <3>1. n \in Nat
      BY <1>1
    <3> QED
      BY ONLY <3>1, <1>5, <1>5a
  <2>2. \A x, p : Applied(x, p, how) = Substituted(x, p[1], p[2])
    BY <1>0 DEF Applied
  <2> QED
    BY <2>1, <2>2
<1>7. a[0] = t /\ a[n] = f[DOMAIN ps]
  BY <1>1, <1>6
<1>8. ASSUME NEW k \in 1..n PROVE a[k] = Substituted(a[k - 1], ps[k][1], ps[k][2])
  <2>1. k \in 0..n /\ k - 1 \in 0..n
    BY <1>1
  <2> QED
    BY <1>6, <2>1
<1>9. Runs(a, t, ps)
  <2> HIDE DEF a
  <2> QED
    BY <1>7, <1>8 DEF Runs, n
<1>10. Replaced(t, ps) = a[Len(ps)]
  <2> HIDE DEF a
  <2> QED
    BY <1>2, <1>7 DEF n
<1> QED
  <2> HIDE DEF a
  <2> QED
    BY <1>9, <1>10

LEMMA ReplacedNone ==
  ASSUME NEW t
  PROVE  Replaced(t, <<>>) = t
<1>1. <<>> \in Seq({}) /\ Len(<<>>) = 0
  BY EmptySeq
<1>2. PICK a : Runs(a, t, <<>>) /\ Replaced(t, <<>>) = a[Len(<<>>)]
  BY <1>1, ReplacedRuns
<1> QED
  BY <1>1, <1>2 DEF Runs

LEMMA ReplacedLast ==
  ASSUME NEW t, NEW S, NEW ps \in Seq(S), NEW p \in S
  PROVE  Replaced(t, Append(ps, p)) = Substituted(Replaced(t, ps), p[1], p[2])
<1> DEFINE n == Len(ps)
           qs == Append(ps, p)
<1>1. n \in Nat /\ qs \in Seq(S) /\ Len(qs) = n + 1 /\ (\A k \in 1..n : qs[k] = ps[k]) /\ qs[n + 1] = p
  BY LenProperties, AppendProperties
<1>2. PICK a : Runs(a, t, ps) /\ Replaced(t, ps) = a[n]
  BY ReplacedRuns
<1> HIDE DEF qs
<1>3. PICK b : Runs(b, t, qs) /\ Replaced(t, qs) = b[n + 1]
  BY <1>1, ReplacedRuns
<1>4. a[0] = t /\ \A k \in 1..n : a[k] = Substituted(a[k - 1], ps[k][1], ps[k][2])
  BY <1>2 DEF Runs
<1>5. b[0] = t /\ \A k \in 1..(n + 1) : b[k] = Substituted(b[k - 1], qs[k][1], qs[k][2])
  BY <1>1, <1>3 DEF Runs
<1> HIDE DEF n
<1> DEFINE U == {k \in Nat : k <= n => a[k] = b[k]}
<1>6. 0 \in U
  BY <1>4, <1>5
<1>7. ASSUME NEW k \in Nat, k \in U PROVE k + 1 \in U
  <2>1. CASE k + 1 <= n
    <3>1. k + 1 \in 1..n /\ k + 1 \in 1..(n + 1) /\ (k + 1) - 1 = k
      BY <1>1, <2>1
    <3>2. a[k] = b[k]
      BY <1>1, <1>7, <2>1
    <3>3. a[k + 1] = Substituted(a[k], ps[k + 1][1], ps[k + 1][2])
      BY <1>4, <3>1
    <3>4. b[k + 1] = Substituted(b[k], qs[k + 1][1], qs[k + 1][2]) /\ qs[k + 1] = ps[k + 1]
      BY <1>1, <1>5, <3>1
    <3> QED
      BY <3>2, <3>3, <3>4
  <2>2. CASE ~(k + 1 <= n)
    BY <2>2
  <2> QED
    BY <2>1, <2>2
<1>8. a[n] = b[n]
  <2> HIDE DEF U
  <2>1. Nat \subseteq U
    BY <1>6, <1>7, CountUp
  <2>2. n \in U
    BY <1>1, <2>1
  <2> QED
    BY <1>1, <2>2 DEF U
<1>9. b[n + 1] = Substituted(b[n], p[1], p[2])
  <2>1. n + 1 \in 1..(n + 1) /\ (n + 1) - 1 = n
    BY <1>1
  <2>2. b[n + 1] = Substituted(b[(n + 1) - 1], qs[n + 1][1], qs[n + 1][2])
    BY <1>5, <2>1
  <2> QED
    BY <1>1, <2>1, <2>2
<1> QED
  BY <1>2, <1>3, <1>8, <1>9 DEF qs

\* Redacting one value after the other.
TokenisedAll(t, ps) == FoldLeft(LAMBDA s, p : Tokenised(s, p[1], p[2]), t, ps)

LEMMA TokenisedRuns ==
  ASSUME NEW t, NEW S, NEW ps \in Seq(S)
  PROVE  \E a : /\ a[0] = t
                /\ \A k \in 1..Len(ps) : a[k] = Tokenised(a[k - 1], ps[k][1], ps[k][2])
                /\ TokenisedAll(t, ps) = a[Len(ps)]
<1> DEFINE Folded(g) == g = [s \in SUBSET DOMAIN ps |->
                  IF s = {} THEN t ELSE Tokenised(g[s \ {Max(s)}], ps[Max(s)][1], ps[Max(s)][2])]
           f == CHOOSE g : Folded(g)
           n == Len(ps)
<1>0. PICK how : how = 1
  OBVIOUS
<1>1. n \in Nat /\ DOMAIN ps = 1..n
  BY LenProperties
<1>2. FoldLeft(LAMBDA s, p : Tokenised(s, p[1], p[2]), t, ps) = f[DOMAIN ps]
  BY Zenon DEF FoldLeft, MapThenFoldSet
<1>3. ASSUME NEW g
      PROVE  FoldIs(how, t, ps, n, g) <=> Folded(g)
  BY <1>0, <1>1 DEF FoldIs, Applied
<1> HIDE DEF n, Folded
<1>4. Folded(f)
  <2>1. \E g : FoldIs(how, t, ps, n, g)
    BY <1>1, FoldExists
  <2> QED
    BY <1>3, <2>1
<1> HIDE DEF f
<1>5. FoldIs(how, t, ps, n, f)
  BY <1>3, <1>4
<1>5a. ASSUME NEW m \in Nat, NEW g, FoldIs(how, t, ps, m, g)
      PROVE  g[1..0] = t /\ \A k \in 1..m : g[1..k] = Applied(g[1..(k - 1)], ps[k], how)
  BY <1>5a, FoldSteps
<1> DEFINE a == [k \in 0..n |-> f[1..k]]
<1>6. f[1..0] = t /\ \A k \in 1..n : f[1..k] = Tokenised(f[1..(k - 1)], ps[k][1], ps[k][2])
  <2>1. f[1..0] = t /\ \A k \in 1..n : f[1..k] = Applied(f[1..(k - 1)], ps[k], how)
    <3>1. n \in Nat
      BY <1>1
    <3> QED
      BY ONLY <3>1, <1>5, <1>5a
  <2>2. \A x, p : Applied(x, p, how) = Tokenised(x, p[1], p[2])
    BY <1>0 DEF Applied
  <2> QED
    BY <2>1, <2>2
<1>7. a[0] = t /\ a[n] = f[DOMAIN ps]
  BY <1>1, <1>6
<1>8. ASSUME NEW k \in 1..n PROVE a[k] = Tokenised(a[k - 1], ps[k][1], ps[k][2])
  <2>1. k \in 0..n /\ k - 1 \in 0..n
    BY <1>1
  <2> QED
    BY <1>6, <2>1
<1>9. FoldLeft(LAMBDA s, p : Tokenised(s, p[1], p[2]), t, ps) = a[n]
  <2> HIDE DEF a
  <2> QED
    BY <1>2, <1>7
<1>10. /\ a[0] = t
       /\ \A k \in 1..Len(ps) : a[k] = Tokenised(a[k - 1], ps[k][1], ps[k][2])
  <2> HIDE DEF a
  <2> QED
    BY <1>7, <1>8 DEF n
<1>11. TokenisedAll(t, ps) = a[Len(ps)]
  <2> HIDE DEF a
  <2> QED
    BY <1>9, Zenon DEF n, TokenisedAll
<1> QED
  <2> HIDE DEF a
  <2> QED
    BY <1>10, <1>11, Zenon

LEMMA RedactRuns ==
  ASSUME NEW text, NEW d, NEW S, Values(d) \in Seq(S)
  PROVE  \E a : /\ a[0] = [text |-> text, tokens |-> <<>>]
                /\ \A k \in 1..Len(Values(d)) : a[k] = Tokenised(a[k - 1], Values(d)[k][1], Values(d)[k][2])
                /\ Redact(text, d) = a[Len(Values(d))]
<1>1. PICK t, V : t = [text |-> text, tokens |-> <<>>] /\ V = Values(d) /\ V \in Seq(S)
  OBVIOUS
<1>2. PICK a : /\ a[0] = t
               /\ \A k \in 1..Len(V) : a[k] = Tokenised(a[k - 1], V[k][1], V[k][2])
               /\ TokenisedAll(t, V) = a[Len(V)]
  BY <1>1, TokenisedRuns
<1>3. Redact(text, d) = a[Len(V)]
  BY <1>1, <1>2, Zenon DEF Redact, TokenisedAll
<1> QED
  BY <1>1, <1>2, <1>3

----------------------------------------------------------------------------
\* What a sequence of replacements shows, and that it can be turned back.

LEMMA SequencesGrow ==
  ASSUME NEW S, NEW Q, <<>> \in Q,
         \A s \in Seq(S) : \A e \in S : s \in Q => Append(s, e) \in Q
  PROVE  \A s \in Seq(S) : s \in Q
<1> DEFINE U == {n \in Nat : \A s \in Seq(S) : Len(s) = n => s \in Q}
<1>1. 0 \in U
  <2>1. ASSUME NEW s \in Seq(S), Len(s) = 0 PROVE s \in Q
    BY <2>1, EmptySeq
  <2> QED
    BY <2>1
<1>2. ASSUME NEW k \in Nat, k \in U PROVE k + 1 \in U
  <2>1. ASSUME NEW s \in Seq(S), Len(s) = k + 1 PROVE s \in Q
    <3>1. s # <<>>
      BY <2>1, EmptySeq
    <3>2. \E u \in Seq(S), e \in S : s = Append(u, e) /\ Len(u) = Len(s) - 1
      <4> DEFINE u == SubSeq(s, 1, k)
      <4>1. \A i \in 1..k : s[i] \in S
        BY <2>1, ElementOfSeq
      <4>2. u \in Seq(S) /\ Len(u) = k /\ \A i \in 1..k : u[i] = s[i]
        BY <4>1, SubSeqProperties
      <4>3. s[k + 1] \in S
        BY <2>1, ElementOfSeq
      <4> HIDE DEF u
      <4>4. /\ Append(u, s[k + 1]) \in Seq(S) /\ Len(Append(u, s[k + 1])) = k + 1
            /\ \A i \in 1..k : Append(u, s[k + 1])[i] = u[i]
            /\ Append(u, s[k + 1])[k + 1] = s[k + 1]
        BY <4>2, <4>3, AppendProperties
      <4>5. \A i \in 1..Len(s) : s[i] = Append(u, s[k + 1])[i]
        BY <2>1, <4>2, <4>4
      <4>6. s = Append(u, s[k + 1])
        BY <2>1, <4>4, <4>5, SeqEqual
      <4> QED
        BY <2>1, <4>2, <4>3, <4>6
    <3>3. PICK u \in Seq(S), e \in S : s = Append(u, e) /\ Len(u) = Len(s) - 1
      BY <3>2
    <3>4. u \in Q
      BY <1>2, <2>1, <3>3
    <3> QED
      BY <3>3, <3>4
  <2> QED
    BY <2>1
<1> HIDE DEF U
<1>3. Nat \subseteq U
  BY <1>1, <1>2, CountUp
<1>4. ASSUME NEW s \in Seq(S) PROVE s \in Q
  <2>1. Len(s) \in U
    BY <1>3, LenProperties
  <2> QED
    BY <2>1 DEF U
<1> QED
  BY <1>4

\* What stands for what: a name or an address, and its token.
Masks == {p \in Texts \X Texts : Word(p[1]) /\ Tok(p[2])}
Unmasks == {p \in Texts \X Texts : Tok(p[1]) /\ Word(p[2])}

LEMMA MaskIs ==
  ASSUME NEW p \in Masks
  PROVE  p[1] \in Texts /\ p[1] # <<>> /\ Word(p[1]) /\ Tok(p[2]) /\ p[2] \in Texts
  BY WordIs DEF Masks

LEMMA UnmaskIs ==
  ASSUME NEW p \in Unmasks
  PROVE  p[1] \in Texts /\ p[1] # <<>> /\ Tok(p[1]) /\ Word(p[2]) /\ p[2] \in Texts
  BY TokIs DEF Unmasks

LEMMA ReplacedText ==
  ASSUME NEW t \in Texts
  PROVE  /\ \A ps \in Seq(Masks) : Replaced(t, ps) \in Texts
         /\ \A ps \in Seq(Unmasks) : Replaced(t, ps) \in Texts
<1> DEFINE Q == {ps : ps \in {qs \in Seq(Masks) \cup Seq(Unmasks) : Replaced(t, qs) \in Texts}}
<1>1. <<>> \in Q
  BY ReplacedNone, EmptySeq
<1>2. ASSUME NEW s \in Seq(Masks), NEW e \in Masks, s \in Q PROVE Append(s, e) \in Q
  <2>1. Replaced(t, Append(s, e)) = Substituted(Replaced(t, s), e[1], e[2])
    BY ReplacedLast
  <2>2. Append(s, e) \in Seq(Masks) /\ Replaced(t, s) \in Texts
    BY <1>2, AppendProperties
  <2>3. Substituted(Replaced(t, s), e[1], e[2]) \in Texts
    BY <2>2, MaskIs, SubText
  <2> QED
    BY <2>1, <2>2, <2>3
<1>3. ASSUME NEW s \in Seq(Unmasks), NEW e \in Unmasks, s \in Q PROVE Append(s, e) \in Q
  <2>1. Replaced(t, Append(s, e)) = Substituted(Replaced(t, s), e[1], e[2])
    BY ReplacedLast
  <2>2. Append(s, e) \in Seq(Unmasks) /\ Replaced(t, s) \in Texts
    BY <1>3, AppendProperties
  <2>3. Substituted(Replaced(t, s), e[1], e[2]) \in Texts
    BY <2>2, UnmaskIs, SubText
  <2> QED
    BY <2>1, <2>2, <2>3
<1>4. (\A ps \in Seq(Masks) : ps \in Q) /\ \A ps \in Seq(Unmasks) : ps \in Q
  <2> HIDE DEF Q
  <2>1. \A ps \in Seq(Masks) : ps \in Q
    BY <1>1, <1>2, SequencesGrow
  <2>2. \A ps \in Seq(Unmasks) : ps \in Q
    BY <1>1, <1>3, SequencesGrow
  <2> QED
    BY <2>1, <2>2
<1> QED
  BY <1>4

\* Masking shows no token but those of the masks.
LEMMA NoTokenShown ==
  ASSUME NEW T, Tok(T), NEW t \in Texts, ~Occurs(T, t)
  PROVE  \A ps \in Seq({p \in Masks : p[2] # T}) : ~Occurs(T, Replaced(t, ps))
<1> DEFINE M == {p \in Masks : p[2] # T}
           Q == {ps \in Seq(M) : ~Occurs(T, Replaced(t, ps))}
<1>1. <<>> \in Q
  BY ReplacedNone, EmptySeq
<1>2. ASSUME NEW s \in Seq(M), NEW e \in M, s \in Q PROVE Append(s, e) \in Q
  <2>1. Replaced(t, Append(s, e)) = Substituted(Replaced(t, s), e[1], e[2])
    <3> HIDE DEF M
    <3> QED
      BY ReplacedLast
  <2>2. Append(s, e) \in Seq(M)
    <3> HIDE DEF M
    <3> QED
      BY AppendProperties
  <2>3. Replaced(t, s) \in Texts
    <3>1. s \in Seq(Masks)
      BY SeqMonotonic
    <3> QED
      BY <3>1, ReplacedText
  <2>4. ~Occurs(T, Replaced(t, s)) /\ e \in Masks /\ e[2] # T
    BY <1>2
  <2>5. e[1] \in Texts /\ e[1] # <<>> /\ Tok(e[2])
    BY <2>4, MaskIs
  <2>6. ~Occurs(T, Substituted(Replaced(t, s), e[1], e[2]))
    BY <2>3, <2>4, <2>5, NoOtherToken
  <2> QED
    BY <2>1, <2>2, <2>6
<1> HIDE DEF Q, M
<1>3. \A ps \in Seq(M) : ps \in Q
  BY <1>1, <1>2, SequencesGrow
<1> QED
  BY <1>3 DEF Q, M

\* A token may be turned back before the others or after them.
LEMMA OtherOrder ==
  ASSUME NEW T, Tok(T), NEW v, Word(v), NEW t \in Texts
  PROVE  \A qs \in Seq({q \in Unmasks : q[1] # T}) :
           Substituted(Replaced(t, qs), T, v) = Replaced(Substituted(t, T, v), qs)
<1> DEFINE M == {q \in Unmasks : q[1] # T}
           Sub(x) == Substituted(x, T, v)
           Q == {qs \in Seq(M) : Sub(Replaced(t, qs)) = Replaced(Sub(t), qs)}
<1>0. T \in Texts /\ T # <<>> /\ v \in Texts
  BY TokIs, WordIs
<1>00. \A x \in Texts : Sub(x) \in Texts
  BY <1>0, SubText
<1>000. ASSUME NEW e \in M PROVE \A x \in Texts : Sub(Substituted(x, e[1], e[2])) = Substituted(Sub(x), e[1], e[2])
  <2>1. Tok(e[1]) /\ Word(e[2]) /\ e[1] # T
    BY UnmaskIs
  <2> QED
    BY <2>1, SubsCommute
<1> HIDE DEF Sub
<1>1. <<>> \in Q
  BY ReplacedNone, EmptySeq
<1>2. ASSUME NEW s \in Seq(M), NEW e \in M, s \in Q PROVE Append(s, e) \in Q
  <2>1. \A x \in Texts : Replaced(x, Append(s, e)) = Substituted(Replaced(x, s), e[1], e[2])
    <3> HIDE DEF M
    <3> QED
      BY ReplacedLast
  <2>2. Append(s, e) \in Seq(M)
    <3> HIDE DEF M
    <3> QED
      BY AppendProperties
  <2>3. Replaced(t, s) \in Texts
    <3>1. s \in Seq(Unmasks)
      BY SeqMonotonic
    <3> QED
      BY <3>1, ReplacedText
  <2>4. Sub(Replaced(t, s)) = Replaced(Sub(t), s)
    BY <1>2
  <2>5. Sub(Substituted(Replaced(t, s), e[1], e[2])) = Substituted(Sub(Replaced(t, s)), e[1], e[2])
    BY <1>000, <2>3
  <2>6. Sub(Replaced(t, Append(s, e))) = Replaced(Sub(t), Append(s, e))
    BY <1>00, <2>1, <2>4, <2>5
  <2> QED
    BY <2>2, <2>6
<1> HIDE DEF Q, M
<1>3. \A ps \in Seq(M) : ps \in Q
  BY <1>1, <1>2, SequencesGrow
<1> QED
  BY <1>3 DEF Q, M, Sub

LEMMA TurnedIs ==
  ASSUME NEW ps \in Seq(Masks)
  PROVE  /\ Turned(ps) \in Seq(Unmasks) /\ Len(Turned(ps)) = Len(ps)
         /\ \A i \in 1..Len(ps) : Turned(ps)[i] = <<ps[i][2], ps[i][1]>>
<1>1. Len(ps) \in Nat /\ DOMAIN ps = 1..Len(ps)
  BY LenProperties
<1>2. Turned(ps) = [i \in 1..Len(ps) |-> <<ps[i][2], ps[i][1]>>]
  BY <1>1 DEF Turned
<1>3. ASSUME NEW i \in 1..Len(ps) PROVE <<ps[i][2], ps[i][1]>> \in Unmasks
  <2>1. ps[i] \in Masks
    BY ElementOfSeq
  <2> QED
    BY <2>1, MaskIs DEF Unmasks
<1> QED
  BY <1>1, <1>2, <1>3

LEMMA TurnedLast ==
  ASSUME NEW ps \in Seq(Masks), NEW p \in Masks
  PROVE  Turned(Append(ps, p)) = Append(Turned(ps), <<p[2], p[1]>>)
<1> DEFINE n == Len(ps)
           qs == Append(ps, p)
           rs == Turned(ps)
           e == <<p[2], p[1]>>
<1>1. n \in Nat /\ qs \in Seq(Masks) /\ Len(qs) = n + 1 /\ (\A k \in 1..n : qs[k] = ps[k]) /\ qs[n + 1] = p
  BY LenProperties, AppendProperties
<1>2. rs \in Seq(Unmasks) /\ Len(rs) = n /\ \A k \in 1..n : rs[k] = <<ps[k][2], ps[k][1]>>
  BY TurnedIs
<1>3. e \in Unmasks
  BY MaskIs DEF Unmasks
<1>4. /\ Append(rs, e) \in Seq(Unmasks) /\ Len(Append(rs, e)) = n + 1
      /\ (\A k \in 1..n : Append(rs, e)[k] = rs[k]) /\ Append(rs, e)[n + 1] = e
  <2> HIDE DEF rs, e, n
  <2> QED
    BY <1>2, <1>3, AppendProperties
<1>5. /\ Turned(qs) \in Seq(Unmasks) /\ Len(Turned(qs)) = n + 1
      /\ \A k \in 1..(n + 1) : Turned(qs)[k] = <<qs[k][2], qs[k][1]>>
  <2> HIDE DEF qs, n
  <2> QED
    BY <1>1, TurnedIs
<1>6. ASSUME NEW k \in 1..(n + 1) PROVE Turned(qs)[k] = Append(rs, e)[k]
  <2>1. CASE k \in 1..n
    <3> HIDE DEF qs, rs, n, e
    <3>1. Turned(qs)[k] = <<qs[k][2], qs[k][1]>> /\ qs[k] = ps[k]
      BY <1>1, <1>5, <2>1
    <3>2. Append(rs, e)[k] = <<ps[k][2], ps[k][1]>>
      BY <1>2, <1>4, <2>1
    <3>3. <<qs[k][2], qs[k][1]>> = <<ps[k][2], ps[k][1]>>
      BY <3>1
    <3> QED
      BY Zenon, <3>1, <3>2, <3>3
  <2>2. CASE k = n + 1
    <3>1. Turned(qs)[n + 1] = <<qs[n + 1][2], qs[n + 1][1]>>
      <4> HIDE DEF qs, rs, n, e
      <4> QED
        BY <1>5, <2>2
    <3>2. Turned(qs)[n + 1] = e
      <4> HIDE DEF qs, rs, n
      <4> QED
        BY <1>1, <3>1
    <3> HIDE DEF qs, rs, n, e
    <3> QED
      BY <1>4, <2>2, <3>2
  <2>3. k \in 1..n \/ k = n + 1
    <3>1. n \in Nat
      BY <1>1
    <3> HIDE DEF n
    <3> QED
      BY <3>1
  <2> HIDE DEF qs, rs, n, e
  <2> QED
    BY <2>1, <2>2, <2>3
<1> HIDE DEF qs, rs, n, e
<1>7. Turned(qs) = Append(rs, e)
  BY <1>4, <1>5, <1>6, SeqEqual
<1> QED
  BY <1>7 DEF qs, rs, e

\* Tokens are given once.
Once(ps) == \A i, j \in 1..Len(ps) : i # j => ps[i][2] # ps[j][2]

LEMMA OnceApart ==
  ASSUME NEW ps \in Seq(Masks), NEW p \in Masks, Once(Append(ps, p))
  PROVE  /\ Once(ps) /\ ps \in Seq({q \in Masks : q[2] # p[2]})
         /\ Turned(ps) \in Seq({q \in Unmasks : q[1] # p[2]})
<1> DEFINE n == Len(ps)
           qs == Append(ps, p)
<1>1. n \in Nat /\ qs \in Seq(Masks) /\ Len(qs) = n + 1 /\ (\A k \in 1..n : qs[k] = ps[k]) /\ qs[n + 1] = p
  BY LenProperties, AppendProperties
<1> HIDE DEF qs
<1>2. \A i, j \in 1..(n + 1) : i # j => qs[i][2] # qs[j][2]
  BY <1>1 DEF Once, qs
<1>3. ASSUME NEW k \in 1..n PROVE ps[k] \in Masks /\ ps[k][2] # p[2]
  <2>1. k \in 1..(n + 1) /\ n + 1 \in 1..(n + 1) /\ k # n + 1
    BY <1>1
  <2> QED
    BY <1>1, <1>2, <2>1, ElementOfSeq
<1>4. Once(ps)
  <2>1. \A k \in 1..n : k \in 1..(n + 1)
    BY <1>1
  <2>2. ASSUME NEW i \in 1..n, NEW j \in 1..n, i # j PROVE ps[i][2] # ps[j][2]
    BY <1>1, <1>2, <2>1, <2>2
  <2> QED
    BY <2>2 DEF Once
<1>5. Len(Turned(ps)) = n /\ Turned(ps) \in Seq(Unmasks) /\ \A k \in 1..n : Turned(ps)[k] = <<ps[k][2], ps[k][1]>>
  BY TurnedIs
<1>6. ASSUME NEW k \in 1..n PROVE Turned(ps)[k] \in Unmasks /\ Turned(ps)[k][1] # p[2]
  <2>1. Turned(ps)[k] \in Unmasks
    <3> HIDE DEF n
    <3> QED
      BY <1>5, ElementOfSeq
  <2> QED
    BY <1>3, <1>5, <2>1
<1>7. ps \in Seq({q \in Masks : q[2] # p[2]})
  BY <1>3
<1>8. Turned(ps) \in Seq({q \in Unmasks : q[1] # p[2]})
  BY <1>5, <1>6
<1> QED
  BY <1>4, <1>7, <1>8

\* What is masked with tokens it does not show is turned back into what it was.
LEMMA RoundTrip ==
  ASSUME NEW t \in Texts
  PROVE  \A ps \in Seq(Masks) :
           Once(ps) /\ (\A i \in 1..Len(ps) : ~Occurs(ps[i][2], t)) => Replaced(Replaced(t, ps), Turned(ps)) = t
<1> DEFINE Shown(ps) == Once(ps) /\ \A i \in 1..Len(ps) : ~Occurs(ps[i][2], t)
           Q == {ps \in Seq(Masks) : Shown(ps) => Replaced(Replaced(t, ps), Turned(ps)) = t}
<1>1. <<>> \in Q
  <2>1. Turned(<<>>) = <<>>
    BY DEF Turned
  <2> QED
    BY <2>1, ReplacedNone, EmptySeq
<1>2. ASSUME NEW s \in Seq(Masks), NEW e \in Masks, s \in Q PROVE Append(s, e) \in Q
  <2> DEFINE x == Replaced(t, s)
             v == e[1]
             T == e[2]
             qs == Turned(s)
  <2>1. Append(s, e) \in Seq(Masks) /\ Len(Append(s, e)) = Len(s) + 1
        /\ (\A i \in 1..Len(s) : Append(s, e)[i] = s[i]) /\ Append(s, e)[Len(s) + 1] = e /\ Len(s) \in Nat
    BY AppendProperties, LenProperties
  <2>2. ASSUME Shown(Append(s, e))
        PROVE  Replaced(Replaced(t, Append(s, e)), Turned(Append(s, e))) = t
    <3>1. Once(s) /\ s \in Seq({q \in Masks : q[2] # T}) /\ qs \in Seq({q \in Unmasks : q[1] # T})
      BY <2>2, OnceApart
    <3>2. (\A i \in 1..Len(s) : ~Occurs(s[i][2], t)) /\ ~Occurs(T, t)
      <4>1. \A i \in 1..(Len(s) + 1) : ~Occurs(Append(s, e)[i][2], t)
        BY <2>1, <2>2
      <4>2. (\A i \in 1..Len(s) : i \in 1..(Len(s) + 1)) /\ Len(s) + 1 \in 1..(Len(s) + 1)
        BY <2>1
      <4>3. ASSUME NEW i \in 1..Len(s) PROVE ~Occurs(s[i][2], t)
        BY <2>1, <4>1, <4>2
      <4> QED
        BY <2>1, <4>1, <4>2, <4>3
    <3>3. Replaced(x, qs) = t
      BY <1>2, <3>1, <3>2
    <3>4. v \in Texts /\ v # <<>> /\ Word(v) /\ Tok(T) /\ T \in Texts
      BY MaskIs
    <3>5. x \in Texts /\ qs \in Seq(Unmasks)
      BY ReplacedText, TurnedIs
    <3>6. ~Occurs(T, x)
      BY <3>1, <3>2, <3>4, NoTokenShown
    <3>7. Replaced(t, Append(s, e)) = Substituted(x, v, T)
      BY ReplacedLast
    <3>8. Turned(Append(s, e)) = Append(qs, <<T, v>>)
      BY TurnedLast
    <3>9. <<T, v>> \in Unmasks /\ <<T, v>>[1] = T /\ <<T, v>>[2] = v
      BY <3>4 DEF Unmasks
    <3> HIDE DEF x, v, T, qs
    <3>10. Substituted(x, v, T) \in Texts
      BY <3>4, <3>5, SubText
    <3>11. \A y \in Texts : Replaced(y, Append(qs, <<T, v>>)) = Substituted(Replaced(y, qs), T, v)
      <4>1. PICK q \in Unmasks : q = <<T, v>> /\ q[1] = T /\ q[2] = v
        BY <3>9
      <4>2. \A y \in Texts : Replaced(y, Append(qs, q)) = Substituted(Replaced(y, qs), q[1], q[2])
        BY <3>5, ReplacedLast
      <4> QED
        BY <4>1, <4>2
    <3>12. \A y \in Texts : Substituted(Replaced(y, qs), T, v) = Replaced(Substituted(y, T, v), qs)
      BY <3>1, <3>4, OtherOrder
    <3>13. Substituted(Substituted(x, v, T), T, v) = x
      BY <3>4, <3>5, <3>6, SubBack
    <3>14. Replaced(Substituted(x, v, T), Append(qs, <<T, v>>)) = Replaced(x, qs)
      BY <3>10, <3>11, <3>12, <3>13
    <3> QED
      BY <3>3, <3>7, <3>8, <3>14
  <2> QED
    BY <2>1, <2>2
<1> HIDE DEF Q
<1>3. \A ps \in Seq(Masks) : ps \in Q
  BY <1>1, <1>2, SequencesGrow
<1> QED
  BY <1>3 DEF Q

----------------------------------------------------------------------------
\* Finite sets written out, and the values of a dossier in their order.

LEMMA OrderExists ==
  ASSUME NEW S, IsFiniteSet(S)
  PROVE  \E f \in [1..Cardinality(S) -> S] : IsInjective(f)
<1>1. ExistsBijection(1..Cardinality(S), S)
  BY FS_CardinalityType
<1>2. PICK f \in [1..Cardinality(S) -> S] : \A a, b \in 1..Cardinality(S) : f[a] = f[b] => a = b
  BY <1>1 DEF ExistsBijection, Bijection, Injection, IsInjective
<1>3. DOMAIN f = 1..Cardinality(S)
  OBVIOUS
<1>4. IsInjective(f)
  BY <1>2, <1>3 DEF IsInjective
<1> QED
  BY <1>4

LEMMA OrderCovers ==
  ASSUME NEW S, IsFiniteSet(S), NEW f \in [1..Cardinality(S) -> S], IsInjective(f)
  PROVE  /\ f \in Seq(S) /\ Len(f) = Cardinality(S)
         /\ \A x \in S : \E i \in 1..Cardinality(S) : f[i] = x
<1> DEFINE n == Cardinality(S)
<1>1. n \in Nat
  BY FS_CardinalityType
<1>2. IsFiniteSet(1..n) /\ Cardinality(1..n) = n
  BY <1>1, FS_Interval
<1> HIDE DEF n
<1>3. f \in [1..n -> S]
  BY DEF n
<1>4. f \in Injection(1..n, S)
  BY <1>3 DEF Injection, IsInjective
<1>5. f \in Surjection(1..n, S)
  BY <1>2, <1>4, FS_Injection DEF n
<1>6. \A x \in S : \E i \in 1..n : f[i] = x
  BY <1>5 DEF Surjection
<1>7. f \in Seq(S) /\ Len(f) = n
  BY <1>1, <1>3
<1> QED
  BY <1>6, <1>7 DEF n

LEMMA FiniteRange ==
  ASSUME NEW S, NEW s \in Seq(S)
  PROVE  IsFiniteSet(ToSet(s))
<1>1. Len(s) \in Nat /\ DOMAIN s = 1..Len(s) /\ s \in [1..Len(s) -> S]
  BY LenProperties
<1>2. s \in Surjection(1..Len(s), ToSet(s))
  BY <1>1 DEF Surjection, ToSet
<1>3. IsFiniteSet(1..Len(s))
  BY <1>1, FS_Interval
<1> QED
  BY <1>2, <1>3, FS_Surjection

LEMMA FiniteImage ==
  ASSUME NEW S, IsFiniteSet(S), NEW g, DOMAIN g = S
  PROVE  IsFiniteSet({g[x] : x \in S})
<1> DEFINE T == {g[x] : x \in S}
           h == [x \in S |-> g[x]]
<1>1. h \in Surjection(S, T)
  BY DEF Surjection
<1> HIDE DEF h
<1> QED
  BY <1>1, FS_Surjection

Falling(s) == \A i, j \in DOMAIN s : i < j => Len(s[i][1]) >= Len(s[j][1])

LEMMA FallingExists ==
  ASSUME NEW E \in SUBSET (Texts \X Kinds), IsFiniteSet(E)
  PROVE  \E s \in Orders(E) : Falling(s)
<1> DEFINE U == {n \in Nat : \A F \in SUBSET (Texts \X Kinds) :
                   IsFiniteSet(F) /\ Cardinality(F) = n => \E s \in Orders(F) : Falling(s)}
<1>1. 0 \in U
  <2>1. ASSUME NEW F \in SUBSET (Texts \X Kinds), IsFiniteSet(F), Cardinality(F) = 0
        PROVE  \E s \in Orders(F) : Falling(s)
    <3>1. PICK f \in [1..Cardinality(F) -> F] : IsInjective(f)
      BY <2>1, OrderExists
    <3>2. f \in Orders(F)
      BY <3>1 DEF Orders
    <3>3. DOMAIN f = {}
      BY <2>1
    <3>4. Falling(f)
      BY <3>3 DEF Falling
    <3> QED
      BY <3>2, <3>4
  <2> QED
    BY <2>1
<1>2. ASSUME NEW n \in Nat, n \in U PROVE n + 1 \in U
  <2>1. ASSUME NEW F \in SUBSET (Texts \X Kinds), IsFiniteSet(F), Cardinality(F) = n + 1
        PROVE  \E s \in Orders(F) : Falling(s)
    <3>1. F # {}
      BY <2>1, FS_EmptySet
    <3>2. PICK m \in F : \A e \in F : Len(m[1]) <= Len(e[1])
      <4> DEFINE N == {Len(e[1]) : e \in F}
      <4>1. N # {}
        BY <3>1
      <4>2. ASSUME NEW e \in F PROVE Len(e[1]) \in Nat
        BY TextIs
      <4>3. N \subseteq Nat
        BY <4>2
      <4>4. PICK k \in N : \A j \in N : k <= j
        <5> HIDE DEF N
        <5> QED
          BY <4>1, <4>3, SmallestNumber
      <4> QED
        BY <4>4
    <3> DEFINE G == F \ {m}
    <3>3. IsFiniteSet(G) /\ Cardinality(G) = n
      <4>1. IsFiniteSet(G) /\ Cardinality(G) = Cardinality(F) - 1
        BY <2>1, FS_RemoveElement
      <4> HIDE DEF G
      <4> QED
        BY <2>1, <4>1
    <3>4. PICK r \in Orders(G) : Falling(r)
      BY <1>2, <3>3
    <3>5. r \in [1..n -> G] /\ \A a, b \in 1..n : r[a] = r[b] => a = b
      BY <3>3, <3>4 DEF Orders, IsInjective
    <3> DEFINE s == [i \in 1..(n + 1) |-> IF i <= n THEN r[i] ELSE m]
    <3>6. ASSUME NEW i \in 1..(n + 1)
          PROVE  /\ i <= n => s[i] = r[i] /\ i \in 1..n /\ r[i] \in G
                 /\ ~(i <= n) => s[i] = m /\ i = n + 1
      BY <3>5
    <3>7. s \in [1..(n + 1) -> F]
      BY <3>6
    <3>8. DOMAIN s = 1..(n + 1)
      OBVIOUS
    <3> HIDE DEF s
    <3>9. \A a, b \in 1..(n + 1) : s[a] = s[b] => a = b
      <4>1. ASSUME NEW a \in 1..(n + 1), NEW b \in 1..(n + 1), s[a] = s[b] PROVE a = b
        BY <3>5, <3>6, <4>1
      <4> QED
        BY <4>1
    <3>10. s \in Orders(F)
      BY <2>1, <3>7, <3>8, <3>9 DEF Orders, IsInjective
    <3>11. Falling(s)
      <4>1. ASSUME NEW i \in 1..(n + 1), NEW j \in 1..(n + 1), i < j PROVE Len(s[i][1]) >= Len(s[j][1])
        <5>1. i <= n /\ i \in 1..n /\ s[i] = r[i] /\ r[i] \in F /\ Len(r[i][1]) \in Nat
          <6>1. i <= n
            BY <4>1
          <6>2. s[i] = r[i] /\ i \in 1..n /\ r[i] \in F
            BY <3>6, <6>1
          <6> QED
            BY <6>1, <6>2, TextIs
        <5>2. CASE j <= n
          <6>1. s[j] = r[j] /\ j \in 1..n
            BY <3>6, <5>2
          <6>2. DOMAIN r = 1..n
            BY <3>5
          <6> QED
            BY <3>4, <4>1, <5>1, <6>1, <6>2 DEF Falling
        <5>3. CASE ~(j <= n)
          <6>1. s[j] = m /\ Len(m[1]) \in Nat
            BY <3>6, <5>3, TextIs
          <6>2. Len(m[1]) <= Len(r[i][1])
            BY <3>2, <5>1
          <6> QED
            BY <5>1, <6>1, <6>2
        <5> QED
          BY <5>2, <5>3
      <4> QED
        BY <3>8, <4>1 DEF Falling
    <3> QED
      BY <3>10, <3>11
  <2> QED
    BY <2>1
<1>3. Cardinality(E) \in U
  <2> HIDE DEF U
  <2>1. Nat \subseteq U
    BY <1>1, <1>2, CountUp
  <2>2. Cardinality(E) \in Nat
    BY FS_CardinalityType
  <2> QED
    BY <2>1, <2>2
<1> QED
  BY <1>3

LEMMA LongestFirstIs ==
  ASSUME NEW E \in SUBSET (Texts \X Kinds), IsFiniteSet(E)
  PROVE  /\ LongestFirst(E) \in Seq(E) /\ Len(LongestFirst(E)) = Cardinality(E)
         /\ \A x \in E : \E i \in 1..Cardinality(E) : LongestFirst(E)[i] = x
         /\ \A i, j \in 1..Cardinality(E) : i < j => Len(LongestFirst(E)[i][1]) >= Len(LongestFirst(E)[j][1])
<1> DEFINE s == LongestFirst(E)
<1>1. LongestFirst(E) = CHOOSE f \in Orders(E) : Falling(f)
  BY Zenon DEF LongestFirst, Falling
<1>2. s \in Orders(E) /\ Falling(s)
  BY <1>1, FallingExists
<1> HIDE DEF s
<1>3. s \in [1..Cardinality(E) -> E] /\ IsInjective(s)
  BY <1>2 DEF Orders
<1>4. s \in Seq(E) /\ Len(s) = Cardinality(E) /\ \A x \in E : \E i \in 1..Cardinality(E) : s[i] = x
  BY <1>3, OrderCovers
<1>5. \A i, j \in 1..Cardinality(E) : i < j => Len(s[i][1]) >= Len(s[j][1])
  BY <1>2, <1>3 DEF Falling
<1> QED
  BY <1>4, <1>5 DEF s

LEMMA EachIs ==
  ASSUME NEW S \in SUBSET Texts, IsFiniteSet(S), NEW kind \in Kinds
  PROVE  /\ Each(S, kind) \in Seq(Texts \X Kinds) /\ Len(Each(S, kind)) = Cardinality(S)
         /\ \A i \in 1..Cardinality(S) : Each(S, kind)[i][1] \in S
         /\ \A x \in S : \E i \in 1..Cardinality(S) : Each(S, kind)[i][1] = x
<1> DEFINE s == SetToSeq(S)
           n == Cardinality(S)
<1>1. s \in [1..n -> S] /\ IsInjective(s)
  <2>1. \E f \in [1..n -> S] : IsInjective(f)
    BY OrderExists
  <2> QED
    BY <2>1 DEF SetToSeq
<1>2. n \in Nat
  BY FS_CardinalityType
<1> HIDE DEF s
<1>3. \A x \in S : \E i \in 1..n : s[i] = x
  BY <1>1, OrderCovers
<1>4. Each(S, kind) = [i \in 1..n |-> <<s[i], kind>>]
  BY DEF Each, s
<1> HIDE DEF n
<1>5. ASSUME NEW i \in 1..n PROVE <<s[i], kind>> \in Texts \X Kinds /\ s[i] \in S
  BY <1>1
<1>6. Each(S, kind) \in Seq(Texts \X Kinds) /\ Len(Each(S, kind)) = n
  BY <1>2, <1>4, <1>5
<1>7. \A i \in 1..n : Each(S, kind)[i][1] = s[i]
  BY <1>4
<1>8. \A i \in 1..n : Each(S, kind)[i][1] \in S
  BY <1>5, <1>7
<1>9. \A x \in S : \E i \in 1..n : Each(S, kind)[i][1] = x
  BY <1>3, <1>7
<1> QED
  BY <1>6, <1>8, <1>9 DEF n

\* The fields of a dossier, its keys and its references.
LEMMA DossierIs ==
  ASSUME NEW d \in Dossiers
  PROVE  /\ IsFiniteSet(Fields(d)) /\ Fields(d) \subseteq Texts \X Texts
         /\ IsFiniteSet(Keys(d)) /\ Keys(d) \subseteq Texts
         /\ IsFiniteSet(Refs(d)) /\ Refs(d) \subseteq Texts
<1> DEFINE A == [ref : Texts, fields : Seq(Texts \X Texts)]
<1>1. d \in Seq(A)
  BY ReasonerAssumption
<1>2. ToSet(d) \subseteq A /\ IsFiniteSet(ToSet(d))
  <2> HIDE DEF A
  <2>1. Len(d) \in Nat /\ DOMAIN d = 1..Len(d) /\ \A i \in 1..Len(d) : d[i] \in A
    BY <1>1, LenProperties, ElementOfSeq
  <2>2. ToSet(d) \subseteq A
    BY <2>1 DEF ToSet
  <2> QED
    BY <1>1, <2>2, FiniteRange
<1>3. ASSUME NEW a \in ToSet(d)
      PROVE  a.ref \in Texts /\ IsFiniteSet(ToSet(a.fields)) /\ ToSet(a.fields) \subseteq Texts \X Texts
  <2>1. a.ref \in Texts /\ a.fields \in Seq(Texts \X Texts)
    BY <1>2
  <2>2. ToSet(a.fields) \subseteq Texts \X Texts
    <3>1. DOMAIN a.fields = 1..Len(a.fields) /\ \A i \in 1..Len(a.fields) : a.fields[i] \in Texts \X Texts
      BY <2>1, LenProperties, ElementOfSeq
    <3> QED
      BY <3>1 DEF ToSet
  <2> QED
    BY <2>1, <2>2, FiniteRange
<1>4. IsFiniteSet(Fields(d)) /\ Fields(d) \subseteq Texts \X Texts
  <2> DEFINE g == [a \in ToSet(d) |-> ToSet(a.fields)]
  <2>1. {g[a] : a \in ToSet(d)} = {ToSet(a.fields) : a \in ToSet(d)}
    OBVIOUS
  <2>2. DOMAIN g = ToSet(d)
    OBVIOUS
  <2>3. IsFiniteSet({g[a] : a \in ToSet(d)})
    <3> HIDE DEF g
    <3> QED
      BY <1>2, <2>2, FiniteImage
  <2>4. \A T \in {ToSet(a.fields) : a \in ToSet(d)} : IsFiniteSet(T)
    BY <1>3
  <2>5. IsFiniteSet(UNION {ToSet(a.fields) : a \in ToSet(d)})
    BY <2>1, <2>3, <2>4, FS_UNION
  <2>6. UNION {ToSet(a.fields) : a \in ToSet(d)} \subseteq Texts \X Texts
    BY <1>3
  <2> QED
    BY <2>5, <2>6 DEF Fields
<1>5. IsFiniteSet(Keys(d)) /\ Keys(d) \subseteq Texts
  <2> DEFINE g == [f \in Fields(d) |-> f[1]]
  <2>1. {g[f] : f \in Fields(d)} = {f[1] : f \in Fields(d)}
    OBVIOUS
  <2>2. DOMAIN g = Fields(d)
    OBVIOUS
  <2>3. IsFiniteSet({g[f] : f \in Fields(d)})
    <3> HIDE DEF g
    <3> QED
      BY <1>4, <2>2, FiniteImage
  <2>4. \A f \in Fields(d) : f[1] \in Texts
    BY <1>4
  <2> QED
    BY <2>1, <2>3, <2>4 DEF Keys
<1>6. IsFiniteSet(Refs(d)) /\ Refs(d) \subseteq Texts
  <2> DEFINE g == [a \in ToSet(d) |-> a.ref]
  <2>1. {g[a] : a \in ToSet(d)} = {a.ref : a \in ToSet(d)}
    OBVIOUS
  <2>2. DOMAIN g = ToSet(d)
    OBVIOUS
  <2>3. IsFiniteSet({g[a] : a \in ToSet(d)})
    <3> HIDE DEF g
    <3> QED
      BY <1>2, <2>2, FiniteImage
  <2>4. \A a \in ToSet(d) : a.ref \in Texts
    BY <1>3
  <2> QED
    BY <2>1, <2>3, <2>4 DEF Refs
<1> QED
  BY <1>4, <1>5, <1>6

LEMMA ExtraIs ==
  ASSUME NEW d \in Dossiers
  PROVE  IsFiniteSet(Extra(d)) /\ Extra(d) \in SUBSET (Texts \X Kinds)
<1> DEFINE X == {f \in Fields(d) : f[1] \in DOMAIN KindOf /\ f[2] \notin Skipped}
           g == [f \in X |-> <<f[2], KindOf[f[1]]>>]
<1>1. IsFiniteSet(X) /\ X \subseteq Texts \X Texts
  <2>1. IsFiniteSet(Fields(d)) /\ Fields(d) \subseteq Texts \X Texts
    BY DossierIs
  <2>2. X \subseteq Fields(d)
    OBVIOUS
  <2> HIDE DEF X
  <2> QED
    BY <2>1, <2>2, FS_Subset
<1>2. Extra(d) = {g[f] : f \in X}
  BY DEF Extra
<1>3. DOMAIN g = X
  OBVIOUS
<1>4. IsFiniteSet({g[f] : f \in X})
  <2> HIDE DEF g, X
  <2> QED
    BY <1>1, <1>3, FiniteImage
<1>5. ASSUME NEW f \in X PROVE <<f[2], KindOf[f[1]]>> \in Texts \X Kinds
  <2>1. f[2] \in Texts /\ f[1] \in DOMAIN KindOf
    BY <1>1
  <2>2. KindOf[f[1]] \in Kinds
    BY <2>1, ReasonerAssumption DEF Kinds
  <2> QED
    BY <2>1, <2>2
<1>6. \A f \in X : g[f] \in Texts \X Kinds
  BY <1>5
<1> HIDE DEF g, X
<1> QED
  BY <1>2, <1>4, <1>6

LEMMA OccursLonger ==
  ASSUME NEW w \in Texts, w # <<>>, NEW v \in Texts, Occurs(w, v)
  PROVE  Len(w) <= Len(v) /\ (Len(w) = Len(v) => w = v)
<1>1. /\ Len(w) \in Nat \ {0} /\ Len(v) \in Nat
  BY TextIs
<1>2. PICK i \in 1..Len(v) : At(w, v, i)
  BY OccursAt
<1>3. i + Len(w) <= Len(v) + 1 /\ \A j \in 1..Len(w) : v[i + j - 1] = w[j]
  BY <1>2 DEF At
<1>4. Len(w) <= Len(v)
  BY <1>1, <1>3
<1>5. ASSUME Len(w) = Len(v) PROVE w = v
  <2>1. i = 1
    BY <1>1, <1>3, <1>5
  <2>2. \A j \in 1..Len(w) : v[j] = w[j]
    BY <1>1, <1>3, <2>1
  <2> QED
    BY <1>5, <2>2, SeqEqual DEF Texts
<1> QED
  BY <1>4, <1>5

LEMMA PlainIs ==
  ASSUME NEW v \in Mails \cup Addresses
  PROVE  v \in Texts /\ Word(v) /\ v # <<>> /\ Colon \notin ToSet(v) /\ Break \notin ToSet(v)
<1>1. Plain(v)
  BY ReasonerAssumption
<1>2. Word(v)
  BY <1>1 DEF Plain, Word
<1> QED
  BY <1>1, <1>2, WordIs, PiecesAre DEF Plain

\* Where the e-mail addresses, the names and the addresses stand among the values.
MailsOf == Cardinality(Mails)
NamesTo(d) == MailsOf + Cardinality(Extra(d))

LEMMA PairsJoin ==
  ASSUME NEW S, NEW s \in Seq(S), NEW t \in Seq(S)
  PROVE  /\ s ++ t \in Seq(S) /\ Len(s ++ t) = Len(s) + Len(t)
         /\ \A i \in 1..(Len(s) + Len(t)) : (s ++ t)[i] = IF i <= Len(s) THEN s[i] ELSE t[i - Len(s)]
  BY ConcatProperties DEF ++

LEMMA ValuesAre ==
  ASSUME NEW d \in Dossiers
  PROVE  LET V == Values(d) IN
         /\ V \in Seq(Texts \X Kinds)
         /\ MailsOf \in Nat /\ NamesTo(d) \in Nat /\ MailsOf <= NamesTo(d) /\ NamesTo(d) <= Len(V)
         /\ \A i \in 1..Len(V) : i <= MailsOf => V[i][1] \in Mails
         /\ \A i \in 1..Len(V) : MailsOf < i /\ i <= NamesTo(d) => V[i][1] \in Names(d)
         /\ \A i \in 1..Len(V) : NamesTo(d) < i => V[i][1] \in Addresses
         /\ \A v \in Mails : \E i \in 1..Len(V) : V[i][1] = v
         /\ \A v \in Names(d) : \E i \in 1..Len(V) : i <= NamesTo(d) /\ V[i][1] = v
         /\ \A v \in Addresses : \E i \in 1..Len(V) : V[i][1] = v
         /\ \A i, j \in 1..Len(V) : MailsOf < i /\ i < j /\ j <= NamesTo(d) => Len(V[i][1]) >= Len(V[j][1])
<1>1. PICK A : A = Each(Mails, "EMAIL")
  OBVIOUS
<1>2. PICK B : B = LongestFirst(Extra(d))
  OBVIOUS
<1>3. PICK C : C = Each(Addresses, "IP")
  OBVIOUS
<1>4. PICK V : V = Values(d)
  OBVIOUS
<1>5. PICK a : a = Cardinality(Mails)
  OBVIOUS
<1>6. PICK b : b = Cardinality(Extra(d))
  OBVIOUS
<1>7. PICK c : c = Cardinality(Addresses)
  OBVIOUS
<1>8. IsFiniteSet(Mails) /\ IsFiniteSet(Addresses) /\ Mails \in SUBSET Texts /\ Addresses \in SUBSET Texts
  BY ReasonerAssumption, PlainIs
<1>9. "EMAIL" \in Kinds /\ "IP" \in Kinds
  BY DEF Kinds
<1>10. /\ A \in Seq(Texts \X Kinds) /\ Len(A) = a
       /\ \A i \in 1..a : A[i][1] \in Mails
       /\ \A x \in Mails : \E i \in 1..a : A[i][1] = x
  <2>1. PICK S \in SUBSET Texts : S = Mails /\ IsFiniteSet(S)
    BY <1>8
  <2>2. PICK kind \in Kinds : kind = "EMAIL"
    BY <1>9
  <2>3. /\ Each(S, kind) \in Seq(Texts \X Kinds) /\ Len(Each(S, kind)) = Cardinality(S)
        /\ \A i \in 1..Cardinality(S) : Each(S, kind)[i][1] \in S
        /\ \A x \in S : \E i \in 1..Cardinality(S) : Each(S, kind)[i][1] = x
    BY <2>1, EachIs
  <2> QED
    BY <1>1, <1>5, <2>1, <2>2, <2>3
<1>11. /\ C \in Seq(Texts \X Kinds) /\ Len(C) = c
       /\ \A i \in 1..c : C[i][1] \in Addresses
       /\ \A x \in Addresses : \E i \in 1..c : C[i][1] = x
  <2>1. PICK S \in SUBSET Texts : S = Addresses /\ IsFiniteSet(S)
    BY <1>8
  <2>2. PICK kind \in Kinds : kind = "IP"
    BY <1>9
  <2>3. /\ Each(S, kind) \in Seq(Texts \X Kinds) /\ Len(Each(S, kind)) = Cardinality(S)
        /\ \A i \in 1..Cardinality(S) : Each(S, kind)[i][1] \in S
        /\ \A x \in S : \E i \in 1..Cardinality(S) : Each(S, kind)[i][1] = x
    BY <2>1, EachIs
  <2> QED
    BY <1>3, <1>7, <2>1, <2>2, <2>3
<1>12. /\ B \in Seq(Extra(d)) /\ Len(B) = b
       /\ \A x \in Extra(d) : \E i \in 1..b : B[i] = x
       /\ \A i, j \in 1..b : i < j => Len(B[i][1]) >= Len(B[j][1])
  BY <1>2, <1>6, ExtraIs, LongestFirstIs
<1>13. B \in Seq(Texts \X Kinds)
  BY <1>12, ExtraIs, SeqMonotonic
<1>14. ASSUME NEW i \in 1..b PROVE B[i][1] \in Names(d)
  <2>1. B[i] \in Extra(d)
    BY <1>12, ElementOfSeq
  <2> QED
    BY <2>1 DEF Names
<1>15. a \in Nat /\ b \in Nat /\ c \in Nat
  BY <1>10, <1>11, <1>12, LenProperties
<1>16. V = (A ++ B) ++ C
  BY <1>1, <1>2, <1>3, <1>4 DEF Values, ++
<1>17. /\ A ++ B \in Seq(Texts \X Kinds) /\ Len(A ++ B) = a + b
       /\ \A i \in 1..(a + b) : (A ++ B)[i] = IF i <= a THEN A[i] ELSE B[i - a]
  <2>1. /\ A ++ B \in Seq(Texts \X Kinds) /\ Len(A ++ B) = Len(A) + Len(B)
        /\ \A i \in 1..(Len(A) + Len(B)) : (A ++ B)[i] = IF i <= Len(A) THEN A[i] ELSE B[i - Len(A)]
    <3>1. PICK P : P = Texts \X Kinds
      OBVIOUS
    <3>2. A \in Seq(P) /\ B \in Seq(P)
      BY <1>10, <1>13, <3>1
    <3>3. A ++ B \in Seq(P)
      BY <3>2, PairsJoin
    <3>4. /\ Len(A ++ B) = Len(A) + Len(B)
          /\ \A i \in 1..(Len(A) + Len(B)) : (A ++ B)[i] = IF i <= Len(A) THEN A[i] ELSE B[i - Len(A)]
      BY ONLY <3>2, PairsJoin
    <3> QED
      BY <3>1, <3>3, <3>4
  <2>2. Len(A) = a /\ Len(B) = b
    BY <1>10, <1>12
  <2> QED
    BY <2>1, <2>2
<1>18. /\ V \in Seq(Texts \X Kinds) /\ Len(V) = a + b + c
       /\ \A i \in 1..(a + b + c) : V[i] = IF i <= a + b THEN (A ++ B)[i] ELSE C[i - (a + b)]
  <2>1. PICK D : D = A ++ B
    OBVIOUS
  <2>2. /\ D ++ C \in Seq(Texts \X Kinds) /\ Len(D ++ C) = a + b + c
        /\ \A i \in 1..(a + b + c) : (D ++ C)[i] = IF i <= a + b THEN D[i] ELSE C[i - (a + b)]
    <3>1. D \in Seq(Texts \X Kinds) /\ Len(D) = a + b /\ C \in Seq(Texts \X Kinds) /\ Len(C) = c
      BY <1>11, <1>17, <2>1
    <3>2. /\ D ++ C \in Seq(Texts \X Kinds) /\ Len(D ++ C) = Len(D) + Len(C)
          /\ \A i \in 1..(Len(D) + Len(C)) : (D ++ C)[i] = IF i <= Len(D) THEN D[i] ELSE C[i - Len(D)]
      BY <3>1, PairsJoin
    <3> QED
      BY <3>1, <3>2
  <2> QED
    BY <1>16, <2>1, <2>2
<1>19. ASSUME NEW i \in 1..(a + b + c)
       PROVE  /\ i <= a => V[i] = A[i] /\ i \in 1..a
              /\ a < i /\ i <= a + b => V[i] = B[i - a] /\ i - a \in 1..b
              /\ a + b < i => V[i] = C[i - (a + b)] /\ i - (a + b) \in 1..c
  <2>1. CASE i <= a
    <3>1. i <= a + b /\ i \in 1..(a + b) /\ i \in 1..a
      BY <1>15, <2>1
    <3>2. V[i] = A[i]
      BY <1>17, <1>18, <2>1, <3>1
    <3> QED
      BY <1>15, <2>1, <3>1, <3>2
  <2>2. CASE a < i /\ i <= a + b
    <3>1. ~(i <= a) /\ i \in 1..(a + b) /\ i - a \in 1..b
      BY <1>15, <2>2
    <3>2. V[i] = B[i - a]
      BY <1>17, <1>18, <2>2, <3>1
    <3> QED
      BY <1>15, <2>2, <3>1, <3>2
  <2>3. CASE a + b < i
    <3>1. ~(i <= a + b) /\ ~(i <= a) /\ i - (a + b) \in 1..c
      BY <1>15, <2>3
    <3>2. V[i] = C[i - (a + b)]
      BY <1>18, <3>1
    <3> QED
      BY <3>1, <3>2
  <2>4. i \in Nat
    BY <1>15
  <2> QED
    BY <1>15, <2>1, <2>2, <2>3, <2>4
<1>20. MailsOf = a /\ NamesTo(d) = a + b
  BY <1>5, <1>6 DEF MailsOf, NamesTo
<1>21. a <= a + b /\ a + b <= a + b + c /\ a + b \in Nat /\ a + b + c \in Nat
  BY <1>15
<1>22. \A i \in 1..(a + b + c) : i <= a => V[i][1] \in Mails
  BY <1>10, <1>19
<1>23. \A i \in 1..(a + b + c) : a < i /\ i <= a + b => V[i][1] \in Names(d)
  BY <1>14, <1>19
<1>24. \A i \in 1..(a + b + c) : a + b < i => V[i][1] \in Addresses
  BY <1>11, <1>19
<1>25. ASSUME NEW v \in Mails PROVE \E i \in 1..(a + b + c) : V[i][1] = v
  <2>1. PICK i \in 1..a : A[i][1] = v
    BY <1>10
  <2>2. i \in 1..(a + b + c) /\ i <= a
    BY <1>15
  <2> QED
    BY <1>19, <2>1, <2>2
<1>26. ASSUME NEW v \in Names(d) PROVE \E i \in 1..(a + b + c) : i <= a + b /\ V[i][1] = v
  <2>1. PICK x \in Extra(d) : x[1] = v
    BY DEF Names
  <2>2. PICK i \in 1..b : B[i] = x
    BY <1>12
  <2>3. a + i \in 1..(a + b + c) /\ a < a + i /\ a + i <= a + b /\ (a + i) - a = i
    BY <1>15
  <2>4. V[a + i] = B[(a + i) - a]
    BY <1>19, <2>3
  <2>5. V[a + i][1] = v
    BY <2>1, <2>2, <2>3, <2>4
  <2> QED
    BY <2>3, <2>5
<1>27. ASSUME NEW v \in Addresses PROVE \E i \in 1..(a + b + c) : V[i][1] = v
  <2>1. PICK i \in 1..c : C[i][1] = v
    BY <1>11
  <2>3. (a + b) + i \in 1..(a + b + c) /\ a + b < (a + b) + i /\ ((a + b) + i) - (a + b) = i
    BY <1>15
  <2>4. V[(a + b) + i] = C[((a + b) + i) - (a + b)]
    BY <1>19, <2>3
  <2> QED
    BY <2>1, <2>3, <2>4
<1>28. ASSUME NEW i \in 1..(a + b + c), NEW j \in 1..(a + b + c), a < i, i < j, j <= a + b
       PROVE  Len(V[i][1]) >= Len(V[j][1])
  <2>1. i <= a + b /\ a < j
    BY <1>15, <1>28
  <2>2. V[i] = B[i - a] /\ i - a \in 1..b /\ V[j] = B[j - a] /\ j - a \in 1..b
    BY <1>19, <1>28, <2>1
  <2>3. i - a < j - a
    BY <1>15, <1>28
  <2>4. Len(B[i - a][1]) >= Len(B[j - a][1])
    BY <1>12, <2>2, <2>3
  <2> QED
    BY <2>2, <2>4
<1>29. Len(V) = a + b + c /\ V \in Seq(Texts \X Kinds)
  BY <1>18
<1> HIDE DEF Values
<1>30. /\ V \in Seq(Texts \X Kinds)
       /\ MailsOf \in Nat /\ NamesTo(d) \in Nat /\ MailsOf <= NamesTo(d) /\ NamesTo(d) <= Len(V)
  BY <1>15, <1>20, <1>21, <1>29
<1>31. /\ \A i \in 1..Len(V) : i <= MailsOf => V[i][1] \in Mails
       /\ \A i \in 1..Len(V) : MailsOf < i /\ i <= NamesTo(d) => V[i][1] \in Names(d)
       /\ \A i \in 1..Len(V) : NamesTo(d) < i => V[i][1] \in Addresses
  BY <1>20, <1>22, <1>23, <1>24, <1>29
<1>32. /\ \A v \in Mails : \E i \in 1..Len(V) : V[i][1] = v
       /\ \A v \in Names(d) : \E i \in 1..Len(V) : i <= NamesTo(d) /\ V[i][1] = v
       /\ \A v \in Addresses : \E i \in 1..Len(V) : V[i][1] = v
  BY <1>20, <1>25, <1>26, <1>27, <1>29
<1>33. \A i, j \in 1..Len(V) : MailsOf < i /\ i < j /\ j <= NamesTo(d) => Len(V[i][1]) >= Len(V[j][1])
  BY <1>20, <1>28, <1>29
<1> QED
  BY <1>4, <1>30, <1>31, <1>32, <1>33, Zenon

\* Every known value is reached before one that it shows is taken out of it.
LEMMA FirstSeen ==
  ASSUME NEW d \in Dossiers, ~Clash(d), NEW v \in KnownValues(d)
  PROVE  \E j \in 1..Len(Values(d)) :
           /\ Values(d)[j][1] = v
           /\ ~Torn(d) => \A i \in 1..(j - 1) : ~Occurs(Values(d)[i][1], v)
<1>1. PICK V : V = Values(d)
  OBVIOUS
<1>2. /\ V \in Seq(Texts \X Kinds)
      /\ MailsOf \in Nat /\ NamesTo(d) \in Nat /\ MailsOf <= NamesTo(d) /\ NamesTo(d) <= Len(V)
      /\ \A i \in 1..Len(V) : i <= MailsOf => V[i][1] \in Mails
      /\ \A i \in 1..Len(V) : MailsOf < i /\ i <= NamesTo(d) => V[i][1] \in Names(d)
      /\ \A i \in 1..Len(V) : NamesTo(d) < i => V[i][1] \in Addresses
      /\ \A i, j \in 1..Len(V) : MailsOf < i /\ i < j /\ j <= NamesTo(d) => Len(V[i][1]) >= Len(V[j][1])
  BY <1>1, ValuesAre
<1>3. /\ \A w \in Names(d) : \E i \in 1..Len(V) : i <= NamesTo(d) /\ V[i][1] = w
      /\ \E i \in 1..Len(V) : V[i][1] = v
  BY <1>1, ValuesAre DEF KnownValues
<1> DEFINE N == {i \in 1..Len(V) : V[i][1] = v}
<1>4. N \subseteq Nat /\ N # {}
  BY <1>3
<1>5. PICK j \in N : \A i \in N : j <= i
  <2> HIDE DEF N
  <2> QED
    BY <1>4, SmallestNumber
<1>6. j \in 1..Len(V) /\ V[j][1] = v /\ Len(V) \in Nat
  BY <1>2, <1>5, LenProperties
<1>7. ASSUME ~Torn(d), NEW i \in 1..(j - 1) PROVE ~Occurs(V[i][1], v)
  <2> DEFINE w == V[i][1]
  <2>1. i \in 1..Len(V) /\ i < j /\ j \in Nat
    BY <1>6
  <2>2. w # v
    BY <1>5, <2>1
  <2>3. v \in Texts /\ w \in Texts
    <3>1. V[i] \in Texts \X Kinds /\ V[j] \in Texts \X Kinds
      BY <1>2, <1>6, <2>1, ElementOfSeq
    <3> QED
      BY <1>6, <3>1
  <2> SUFFICES ~Occurs(w, v)
    OBVIOUS
  <2> HIDE DEF w
  <2>4. CASE i <= MailsOf
    <3>1. w \in Mails
      BY <1>2, <2>1, <2>4 DEF w
    <3>2. CASE v \in Mails \cup Addresses
      <4>1. \A x \in Mails, y \in Mails \cup Addresses : x # y => ~Occurs(x, y)
        BY ReasonerAssumption
      <4> QED
        BY <2>2, <3>1, <3>2, <4>1
    <3>3. CASE v \in Names(d)
      <4>1. \A x \in Names(d) : \A y \in Mails \ {x} : ~Occurs(y, x)
        BY <1>7 DEF Torn
      <4> QED
        BY <2>2, <3>1, <3>3, <4>1
    <3> QED
      BY <3>2, <3>3 DEF KnownValues
  <2>5. CASE MailsOf < i /\ j <= NamesTo(d)
    <3>1. Len(w) >= Len(v)
      BY <1>2, <1>6, <2>1, <2>5 DEF w
    <3>2. w # <<>>
      <4>1. w \in Names(d)
        BY <1>2, <2>1, <2>5 DEF w
      <4>2. ~(ToSet(w) \subseteq TokenWords)
        BY <4>1 DEF Clash
      <4>3. ToSet(<<>>) = {}
        BY NoneIs, TextIs
      <4> QED
        BY <4>2, <4>3
    <3>3. Len(w) \in Nat /\ Len(v) \in Nat
      BY <2>3, TextIs
    <3>4. ~Occurs(w, v)
      BY <2>2, <2>3, <3>1, <3>2, <3>3, OccursLonger
    <3> QED
      BY <3>4
  <2>6. CASE MailsOf < i /\ i <= NamesTo(d) /\ NamesTo(d) < j
    <3>1. w \in Names(d)
      BY <1>2, <2>1, <2>6 DEF w
    <3>2. v \in Addresses
      BY <1>2, <1>6, <2>6
    <3>3. v \notin Names(d)
      <4>1. SUFFICES ASSUME v \in Names(d) PROVE FALSE
        OBVIOUS
      <4>2. PICK k \in 1..Len(V) : k <= NamesTo(d) /\ V[k][1] = v
        BY <1>3, <4>1
      <4>3. j <= k
        BY <1>5, <4>2
      <4> QED
        BY <1>2, <1>6, <2>1, <2>6, <4>2, <4>3
    <3> QED
      BY <1>7, <3>1, <3>2, <3>3 DEF Torn
  <2>7. CASE NamesTo(d) < i
    <3>1. NamesTo(d) < j
      BY <1>2, <2>1, <2>7
    <3>2. w \in Addresses /\ v \in Addresses
      BY <1>2, <1>6, <2>1, <2>7, <3>1 DEF w
    <3>3. \A x, y \in Addresses : x # y => ~Occurs(x, y)
      BY ReasonerAssumption
    <3>4. ~Occurs(w, v)
      BY <2>2, <3>2, <3>3
    <3> QED
      BY <3>4
  <2>8. i \in Nat /\ j \in Nat /\ NamesTo(d) \in Nat /\ MailsOf \in Nat
    BY <1>2, <2>1
  <2>9. \/ i <= MailsOf
        \/ MailsOf < i /\ j <= NamesTo(d)
        \/ MailsOf < i /\ i <= NamesTo(d) /\ NamesTo(d) < j
        \/ NamesTo(d) < i
    BY <2>1, <2>8
  <2> QED
    BY <2>4, <2>5, <2>6, <2>7, <2>9
<1>8. \A k \in 1..(j - 1) : ~Torn(d) => ~Occurs(V[k][1], v)
  BY <1>7
<1> QED
  BY <1>1, <1>6, <1>8

----------------------------------------------------------------------------
\* The redactor: what it has replaced, and the tokens it has given.

LEMMA OccursSplit ==
  ASSUME NEW v \in Texts, v # <<>>
  PROVE  \A t \in Texts : Occurs(v, t) => \E p, q \in Texts : t = p ++ (v ++ q)
<1> DEFINE Q == {t \in Texts : Occurs(v, t) => \E p, q \in Texts : t = p ++ (v ++ q)}
<1>1. <<>> \in Q
  BY NoneIs, OccursNowhere
<1>2. ASSUME NEW u \in Texts, u \in Q PROVE v ++ u \in Q
  <2>1. v ++ u \in Texts
    BY JoinIs
  <2>2. v ++ u = <<>> ++ (v ++ u) /\ <<>> \in Texts
    BY <2>1, NoneIs
  <2> QED
    BY <2>1, <2>2
<1>3. ASSUME NEW a \in Texts, NEW u \in Texts, u \in Q, Len(a) = 1, ~Starts(v, a ++ u) PROVE a ++ u \in Q
  <2>1. a ++ u \in Texts
    BY JoinIs
  <2>2. ASSUME Occurs(v, a ++ u) PROVE \E p, q \in Texts : a ++ u = p ++ (v ++ q)
    <3>1. Occurs(v, u)
      BY <1>3, <2>2, OccursNext
    <3>2. PICK p, q \in Texts : u = p ++ (v ++ q)
      BY <1>3, <3>1
    <3>3. PICK y \in Texts : y = v ++ q
      BY JoinIs
    <3>4. (a ++ p) ++ y = a ++ (p ++ y)
      BY JoinThree
    <3>5. a ++ p \in Texts
      BY JoinIs
    <3> QED
      BY <3>2, <3>3, <3>4, <3>5
  <2> QED
    BY <2>1, <2>2
<1> HIDE DEF Q
<1>4. \A t \in Texts : t \in Q
  BY <1>1, <1>2, <1>3, TextsByFinds
<1> QED
  BY <1>4 DEF Q

LEMMA OccursInside ==
  ASSUME NEW v \in Texts, v # <<>>, NEW p \in Texts, NEW q \in Texts
  PROVE  Occurs(v, p ++ (v ++ q))
<1>1. v ++ q \in Texts
  BY JoinIs
<1>2. Occurs(v, v ++ q)
  BY <1>1, StartsJoin, OccursFirst
<1> QED
  BY <1>1, <1>2, OccursBehind

LEMMA ValueIs ==
  ASSUME NEW d \in Dossiers, ~Clash(d), NEW i \in 1..Len(Values(d))
  PROVE  /\ Word(Values(d)[i][1]) /\ Values(d)[i][2] \in Kinds
         /\ ~Torn(d) => Colon \notin ToSet(Values(d)[i][1]) /\ Break \notin ToSet(Values(d)[i][1])
<1>1. PICK V : V = Values(d)
  OBVIOUS
<1>2. PICK w : w = V[i][1]
  OBVIOUS
<1>3. /\ V \in Seq(Texts \X Kinds)
      /\ MailsOf \in Nat /\ NamesTo(d) \in Nat
      /\ \A j \in 1..Len(V) : j <= MailsOf => V[j][1] \in Mails
      /\ \A j \in 1..Len(V) : MailsOf < j /\ j <= NamesTo(d) => V[j][1] \in Names(d)
      /\ \A j \in 1..Len(V) : NamesTo(d) < j => V[j][1] \in Addresses
  BY <1>1, ValuesAre
<1>4. w \in Mails \cup Addresses \/ w \in Names(d)
  <2>1. i \in 1..Len(V) /\ i \in Nat
    BY <1>1, <1>3, LenProperties
  <2>2. i <= MailsOf \/ (MailsOf < i /\ i <= NamesTo(d)) \/ NamesTo(d) < i
    BY <1>3, <2>1
  <2> QED
    BY <1>2, <1>3, <2>1, <2>2
<1>5. w \in Texts /\ V[i][2] \in Kinds
  BY <1>1, <1>2, <1>3, ElementOfSeq
<1>6. CASE w \in Mails \cup Addresses
  <2>1. Word(w) /\ Colon \notin ToSet(w) /\ Break \notin ToSet(w)
    BY <1>6, PlainIs
  <2> QED
    BY <1>1, <1>2, <1>5, <2>1
<1>7. CASE w \in Names(d)
  <2>1. ToSet(w) \cap Brackets = {} /\ ~(ToSet(w) \subseteq TokenWords)
    BY <1>7 DEF Clash
  <2>2. ~Torn(d) => ToSet(w) \cap Separators = {}
    BY <1>7 DEF Torn
  <2>3. ~Torn(d) => Colon \notin ToSet(w) /\ Break \notin ToSet(w)
    BY <2>2, PiecesAre
  <2>4. Word(w)
    BY <1>5, <2>1 DEF Word
  <2> QED
    BY <1>1, <1>2, <1>5, <2>3, <2>4
<1> QED
  BY <1>4, <1>6, <1>7

\* The state of the redactor that started with a text.
Redacting(s, text) ==
  /\ s = [text |-> s.text, tokens |-> s.tokens]
  /\ s.text \in Texts /\ s.tokens \in Seq(Masks) /\ Once(s.tokens)
  /\ s.text = Replaced(text, s.tokens)
  /\ \A i \in 1..Len(s.tokens) : \E kind \in Kinds, m \in 1..Len(s.tokens) :
       s.tokens[i][2] = Token(kind, m) /\ m <= Given(s, kind)

LEMMA GivenIs ==
  ASSUME NEW s, s.tokens \in Seq(Masks), NEW kind
  PROVE  Given(s, kind) \in Nat /\ Given(s, kind) <= Len(s.tokens)
<1> DEFINE I == {i \in DOMAIN s.tokens : s.tokens[i][2][2] = kind}
           n == Len(s.tokens)
<1>1. n \in Nat /\ DOMAIN s.tokens = 1..n
  BY LenProperties
<1>2. IsFiniteSet(1..n) /\ Cardinality(1..n) = n
  BY <1>1, FS_Interval
<1>3. I \in SUBSET (1..n)
  BY <1>1
<1> HIDE DEF I, n
<1>4. IsFiniteSet(I) /\ Cardinality(I) <= n
  BY <1>2, <1>3, FS_Subset
<1>5. Cardinality(I) \in Nat
  BY <1>4, FS_CardinalityType
<1> QED
  BY <1>4, <1>5 DEF Given, I, n

LEMMA GivenOn ==
  ASSUME NEW s, s.tokens \in Seq(Masks), NEW p \in Masks, NEW r, r.tokens = Append(s.tokens, p)
  PROVE  /\ \A kind : Given(r, kind) >= Given(s, kind)
         /\ Given(r, p[2][2]) = Given(s, p[2][2]) + 1
<1> DEFINE n == Len(s.tokens)
           ts == s.tokens
           rs == r.tokens
           Old(kind) == {i \in 1..n : ts[i][2][2] = kind}
           New(kind) == {i \in 1..(n + 1) : rs[i][2][2] = kind}
<1>1. /\ n \in Nat /\ DOMAIN ts = 1..n
      /\ rs \in Seq(Masks) /\ Len(rs) = n + 1 /\ (\A k \in 1..n : rs[k] = ts[k]) /\ rs[n + 1] = p
  BY LenProperties, AppendProperties
<1>2. DOMAIN rs = 1..(n + 1)
  <2> HIDE DEF rs, n
  <2> QED
    BY <1>1, LenProperties
<1>3. \A kind : Given(s, kind) = Cardinality(Old(kind)) /\ Given(r, kind) = Cardinality(New(kind))
  BY <1>1, <1>2 DEF Given
<1> HIDE DEF ts, rs, n
<1>4. IsFiniteSet(1..(n + 1)) /\ IsFiniteSet(1..n)
  BY <1>1, FS_Interval
<1>5. ASSUME NEW kind
      PROVE  IsFiniteSet(New(kind)) /\ IsFiniteSet(Old(kind)) /\ Cardinality(Old(kind)) \in Nat /\ Cardinality(New(kind)) \in Nat
  <2>1. New(kind) \in SUBSET (1..(n + 1)) /\ Old(kind) \in SUBSET (1..n)
    OBVIOUS
  <2> HIDE DEF New, Old
  <2>2. IsFiniteSet(New(kind)) /\ IsFiniteSet(Old(kind))
    BY <1>4, <2>1, FS_Subset
  <2> QED
    BY <2>2, FS_CardinalityType
<1>6. ASSUME NEW kind PROVE Cardinality(New(kind)) >= Cardinality(Old(kind))
  <2>1. Old(kind) \in SUBSET New(kind)
    <3>1. \A i \in 1..n : i \in 1..(n + 1)
      BY <1>1
    <3> QED
      BY <1>1, <3>1
  <2>2. IsFiniteSet(New(kind)) /\ Cardinality(Old(kind)) \in Nat /\ Cardinality(New(kind)) \in Nat
    BY <1>5
  <2> HIDE DEF New, Old
  <2>3. Cardinality(Old(kind)) <= Cardinality(New(kind))
    BY <2>1, <2>2, FS_Subset
  <2> QED
    BY <2>2, <2>3
<1>7. Cardinality(New(p[2][2])) = Cardinality(Old(p[2][2])) + 1
  <2>1. PICK kind : kind = p[2][2]
    OBVIOUS
  <2>2. ASSUME NEW i \in 1..(n + 1) PROVE i \in New(kind) <=> i \in Old(kind) \/ i = n + 1
    <3>1. CASE i \in 1..n
      <4>1. i # n + 1
        BY <1>1, <3>1
      <4> QED
        BY <1>1, <3>1, <4>1
    <3>2. CASE i = n + 1
      BY <1>1, <2>1, <3>2
    <3> QED
      BY <1>1, <3>1, <3>2
  <2>3. n + 1 \in 1..(n + 1) /\ n + 1 \notin 1..n /\ \A i \in 1..n : i \in 1..(n + 1)
    BY <1>1
  <2>4. New(kind) = Old(kind) \cup {n + 1} /\ n + 1 \notin Old(kind)
    BY <2>2, <2>3
  <2>5. IsFiniteSet(Old(kind))
    BY <1>5
  <2> HIDE DEF New, Old
  <2>6. Cardinality(New(kind)) = Cardinality(Old(kind)) + 1
    BY <2>4, <2>5, FS_AddElement
  <2> QED
    BY <2>1, <2>6
<1> HIDE DEF New, Old
<1> QED
  BY <1>3, <1>6, <1>7

LEMMA TokenisedIs ==
  ASSUME NEW text \in Texts, NEW s, Redacting(s, text), NEW v, Word(v), NEW kind \in Kinds
  PROVE  Redacting(Tokenised(s, v, kind), text)
<1>1. CASE ~Occurs(v, s.text)
  BY <1>1 DEF Tokenised
<1>2. CASE Occurs(v, s.text)
  <2> DEFINE g == Given(s, kind)
             T == Token(kind, g + 1)
             n == Len(s.tokens)
             p == <<v, T>>
             r == Tokenised(s, v, kind)
             new == Substituted(s.text, v, T)
  <2>1. s.text \in Texts /\ s.tokens \in Seq(Masks) /\ n \in Nat /\ s.text = Replaced(text, s.tokens) /\ Once(s.tokens)
    BY LenProperties DEF Redacting
  <2>2. g \in Nat /\ g <= n
    BY <2>1, GivenIs
  <2>3. Tok(T) /\ Len(T) = (g + 1) + 4 /\ T[2] = kind
    <3>1. PICK m \in Nat : m = g + 1
      BY <2>2
    <3>2. Tok(Token(kind, m)) /\ Len(Token(kind, m)) = m + 4 /\ Token(kind, m)[2] = kind
      BY TokenIs
    <3> QED
      BY <3>1, <3>2
  <2>4. v \in Texts /\ v # <<>> /\ T \in Texts
    BY <2>3, WordIs, TokIs
  <2>5. p \in Masks /\ p[1] = v /\ p[2] = T
    BY <2>3, <2>4 DEF Masks
  <2>6. r = [text |-> new, tokens |-> Append(s.tokens, p)]
    BY <1>2 DEF Tokenised, TokenFor
  <2>7. r.text = new /\ r.tokens = Append(s.tokens, p)
    BY <2>6
  <2> HIDE DEF r, p, T, g
  <2>8. new \in Texts
    BY <2>1, <2>4, SubText
  <2>9. /\ Append(s.tokens, p) \in Seq(Masks) /\ Len(Append(s.tokens, p)) = n + 1
        /\ (\A k \in 1..n : Append(s.tokens, p)[k] = s.tokens[k]) /\ Append(s.tokens, p)[n + 1] = p
    BY <2>1, <2>5, AppendProperties
  <2>10. new = Replaced(text, Append(s.tokens, p))
    BY <2>1, <2>5, ReplacedLast
  <2> HIDE DEF new
  <2>11. PICK ts : ts = r.tokens
    OBVIOUS
  <2>12. /\ ts \in Seq(Masks) /\ Len(ts) = n + 1
         /\ (\A k \in 1..n : ts[k] = s.tokens[k]) /\ ts[n + 1] = p
    BY <2>7, <2>9, <2>11
  <2>13. (\A k2 : Given(r, k2) >= Given(s, k2)) /\ Given(r, kind) = g + 1
    <3>1. r.tokens = Append(s.tokens, p)
      BY <2>7
    <3>2. (\A k2 : Given(r, k2) >= Given(s, k2)) /\ Given(r, p[2][2]) = Given(s, p[2][2]) + 1
      BY <2>1, <2>5, <3>1, GivenOn
    <3> QED
      BY <2>3, <2>5, <3>2 DEF g
  <2> HIDE DEF n
  <2>14. ASSUME NEW i \in 1..n
         PROVE  \E k2 \in Kinds, m \in 1..n : ts[i][2] = Token(k2, m) /\ m <= Given(s, k2)
    BY <2>12 DEF Redacting, n
  <2>15. ASSUME NEW i \in 1..(n + 1)
         PROVE  \E k2 \in Kinds, m \in 1..(n + 1) : ts[i][2] = Token(k2, m) /\ m <= Given(r, k2)
    <3>1. CASE i \in 1..n
      <4>1. PICK k2 \in Kinds, m \in 1..n : ts[i][2] = Token(k2, m) /\ m <= Given(s, k2)
        BY <2>14, <3>1
      <4>2. Given(s, k2) \in Nat /\ Given(r, k2) \in Nat
        BY <2>1, <2>11, <2>12, GivenIs
      <4>3. m \in 1..(n + 1) /\ m <= Given(r, k2)
        BY <2>1, <2>13, <4>1, <4>2
      <4> QED
        BY <4>1, <4>3
    <3>2. CASE i = n + 1
      <4>1. g + 1 \in 1..(n + 1) /\ g + 1 <= Given(r, kind)
        BY <2>1, <2>2, <2>13
      <4>2. ts[i][2] = Token(kind, g + 1)
        BY <2>5, <2>12, <3>2 DEF T
      <4> QED
        BY <4>1, <4>2
    <3>3. i \in 1..n \/ i = n + 1
      BY <2>1
    <3> QED
      BY <3>1, <3>2, <3>3
  <2>16. ASSUME NEW i \in 1..n PROVE ts[i][2] # T
    <3>1. PICK k2 \in Kinds, m \in 1..n : ts[i][2] = Token(k2, m) /\ m <= Given(s, k2)
      BY <2>14
    <3>2. m \in Nat
      BY <2>1
    <3>3. Len(Token(k2, m)) = m + 4 /\ Token(k2, m)[2] = k2
      BY <3>2, TokenIs
    <3>4. SUFFICES ASSUME Token(k2, m) = T PROVE FALSE
      BY <3>1
    <3>5. k2 = kind /\ m + 4 = (g + 1) + 4
      BY <2>3, <3>3, <3>4
    <3>6. m <= g
      BY <3>1, <3>5 DEF g
    <3> QED
      BY <2>2, <3>2, <3>5, <3>6
  <2>17. ASSUME NEW i \in 1..(n + 1), NEW j \in 1..(n + 1), i # j PROVE ts[i][2] # ts[j][2]
    <3>1. (i \in 1..n \/ i = n + 1) /\ (j \in 1..n \/ j = n + 1)
      BY <2>1
    <3>2. CASE i \in 1..n /\ j \in 1..n
      <4>1. s.tokens[i][2] # s.tokens[j][2]
        BY <2>1, <2>17, <3>2 DEF Once, n
      <4> QED
        BY <2>12, <3>2, <4>1
    <3>3. CASE i \in 1..n /\ j = n + 1
      BY <2>5, <2>12, <2>16, <3>3
    <3>4. CASE i = n + 1 /\ j \in 1..n
      BY <2>5, <2>12, <2>16, <3>4
    <3> QED
      BY <2>17, <3>1, <3>2, <3>3, <3>4
  <2>18. Once(ts)
    BY <2>12, <2>17 DEF Once
  <2>19. r = [text |-> r.text, tokens |-> r.tokens]
    BY <2>6, <2>7
  <2>20. \A i \in 1..Len(r.tokens) : \E k2 \in Kinds, m \in 1..Len(r.tokens) :
            r.tokens[i][2] = Token(k2, m) /\ m <= Given(r, k2)
    BY <2>11, <2>12, <2>15
  <2>21. Redacting(r, text)
    BY <2>7, <2>8, <2>10, <2>11, <2>12, <2>18, <2>19, <2>20 DEF Redacting
  <2> QED
    BY <2>21 DEF r
<1> QED
  BY <1>1, <1>2

LEMMA RedactingStarts ==
  ASSUME NEW text \in Texts
  PROVE  Redacting([text |-> text, tokens |-> <<>>], text)
<1>1. Replaced(text, <<>>) = text
  BY ReplacedNone
<1>2. <<>> \in Seq(Masks) /\ Len(<<>>) = 0
  BY EmptySeq
<1>3. Once(<<>>)
  BY <1>2 DEF Once
<1> QED
  BY <1>1, <1>2, <1>3 DEF Redacting

LEMMA TokenForIs ==
  ASSUME NEW s, s.tokens \in Seq(Masks), NEW kind \in Kinds
  PROVE  Tok(TokenFor(s, kind)) /\ \E m \in 1..(Len(s.tokens) + 1) : TokenFor(s, kind) = Token(kind, m)
<1>1. Len(s.tokens) \in Nat /\ Given(s, kind) \in Nat /\ Given(s, kind) <= Len(s.tokens)
  BY GivenIs, LenProperties
<1>2. PICK m \in 1..(Len(s.tokens) + 1) : m = Given(s, kind) + 1
  BY <1>1
<1>3. m \in Nat
  BY <1>1
<1>4. Tok(Token(kind, m))
  BY <1>3, TokenIs
<1> QED
  BY <1>2, <1>4 DEF TokenFor

LEMMA TokenisedHides ==
  ASSUME NEW s, s.text \in Texts, s.tokens \in Seq(Masks), NEW v, Word(v), NEW kind \in Kinds, NEW w, Word(w),
         w = v \/ ~Occurs(w, s.text)
  PROVE  ~Occurs(w, Tokenised(s, v, kind).text)
<1>1. CASE ~Occurs(v, s.text)
  BY <1>1 DEF Tokenised
<1>2. CASE Occurs(v, s.text)
  <2>1. PICK T : T = TokenFor(s, kind) /\ Tok(T)
    BY TokenForIs
  <2>2. Tokenised(s, v, kind).text = Substituted(s.text, v, T)
    BY <1>2, <2>1 DEF Tokenised
  <2>3. v \in Texts /\ v # <<>>
    BY WordIs
  <2>4. ~Occurs(w, Substituted(s.text, v, T))
    BY <2>1, <2>3, Hidden
  <2> QED
    BY <2>2, <2>4
<1> QED
  BY <1>1, <1>2

\* What goes to the provider is what the tokens given make of the prompt, and no
\* value is left in it.
LEMMA RedactIs ==
  ASSUME NEW d \in Dossiers, ~Clash(d), NEW text \in Texts
  PROVE  /\ Redacting(Redact(text, d), text)
         /\ \A v \in KnownValues(d) : ~Occurs(v, Redact(text, d).text)
<1>1. PICK V \in Seq(Texts \X Kinds) : V = Values(d)
  BY ValuesAre
<1>2. PICK n \in Nat : n = Len(V)
  BY LenProperties
<1>3. PICK a : /\ a[0] = [text |-> text, tokens |-> <<>>]
               /\ \A k \in 1..n : a[k] = Tokenised(a[k - 1], V[k][1], V[k][2])
               /\ Redact(text, d) = a[n]
  BY <1>1, <1>2, RedactRuns
<1>4. \A i \in 1..n : Word(V[i][1]) /\ V[i][2] \in Kinds
  BY <1>1, <1>2, ValueIs
<1> DEFINE Good(k) == Redacting(a[k], text) /\ \A j \in 1..k : ~Occurs(V[j][1], a[k].text)
           U == {k \in Nat : k <= n => Good(k)}
<1>5. 0 \in U
  BY <1>3, RedactingStarts
<1>6. ASSUME NEW k \in Nat, k \in U, k + 1 <= n PROVE Good(k + 1)
  <2>1. k + 1 \in 1..n /\ (k + 1) - 1 = k /\ k <= n
    BY <1>6
  <2>2. Redacting(a[k], text) /\ \A j \in 1..k : ~Occurs(V[j][1], a[k].text)
    BY <1>6, <2>1
  <2>3. PICK v, kind : v = V[k + 1][1] /\ kind = V[k + 1][2]
    OBVIOUS
  <2>4. Word(v) /\ kind \in Kinds
    BY <1>4, <2>1, <2>3
  <2>5. a[k + 1] = Tokenised(a[k], v, kind)
    BY <1>3, <2>1, <2>3
  <2>6. Redacting(Tokenised(a[k], v, kind), text)
    BY <2>2, <2>4, TokenisedIs
  <2>7. a[k].text \in Texts /\ a[k].tokens \in Seq(Masks)
    BY <2>2 DEF Redacting
  <2>8. ASSUME NEW j \in 1..(k + 1) PROVE ~Occurs(V[j][1], Tokenised(a[k], v, kind).text)
    <3>1. PICK w : w = V[j][1]
      OBVIOUS
    <3>2. j \in 1..n /\ (j \in 1..k \/ j = k + 1)
      BY <2>1
    <3>3. Word(w)
      BY <1>4, <3>1, <3>2
    <3>4. w = v \/ ~Occurs(w, a[k].text)
      BY <2>2, <2>3, <3>1, <3>2
    <3>5. ~Occurs(w, Tokenised(a[k], v, kind).text)
      BY <2>4, <2>7, <3>3, <3>4, TokenisedHides
    <3> QED
      BY <3>1, <3>5
  <2> QED
    BY <2>5, <2>6, <2>8
<1>7. \A k \in Nat : k \in U => k + 1 \in U
  BY <1>6
<1>8. Good(n)
  <2> HIDE DEF Good
  <2>1. n \in U
    <3> HIDE DEF U
    <3>1. Nat \subseteq U
      BY <1>5, <1>7, CountUp
    <3> QED
      BY <3>1
  <2> QED
    BY <2>1
<1>9. ASSUME NEW v \in KnownValues(d) PROVE ~Occurs(v, a[n].text)
  <2>1. PICK j \in 1..n : V[j][1] = v
    BY <1>1, <1>2, FirstSeen
  <2> QED
    BY <1>8, <2>1
<1> QED
  BY <1>3, <1>8, <1>9

\* A field in a text: what stands between its colon and its line break.
Field(c, b, p, y, q) == Around(p, c, Around(y, b, q))
Marks(c, b) == c \in Texts /\ b \in Texts /\ Len(c) = 1 /\ Len(b) = 1 /\ c[1] = Colon /\ b[1] = Break

LEMMA FieldIsText ==
  ASSUME NEW c, NEW b, Marks(c, b), NEW p \in Texts, NEW y \in Texts, NEW q \in Texts
  PROVE  /\ b ++ q \in Texts /\ y ++ (b ++ q) \in Texts /\ c ++ (y ++ (b ++ q)) \in Texts
         /\ Field(c, b, p, y, q) \in Texts
<1>1. PICK x \in Texts : x = b ++ q
  BY JoinIs DEF Marks
<1>2. PICK z \in Texts : z = y ++ x
  BY JoinIs
<1>3. PICK u \in Texts : u = c ++ z
  BY JoinIs DEF Marks
<1>4. p ++ u \in Texts
  BY JoinIs
<1> QED
  BY <1>1, <1>2, <1>3, <1>4 DEF Field, Around

\* What stands in a field occurs in the text.
LEMMA FieldShows ==
  ASSUME NEW c, NEW b, Marks(c, b), NEW p \in Texts, NEW y \in Texts, y # <<>>, NEW q \in Texts
  PROVE  Occurs(y, Field(c, b, p, y, q))
<1>1. PICK x \in Texts : x = b ++ q
  BY FieldIsText
<1>2. PICK z \in Texts : z = y ++ x
  BY JoinIs
<1>3. Occurs(y, z)
  BY <1>2, StartsJoin, OccursFirst
<1>4. c ++ z \in Texts /\ Occurs(y, c ++ z)
  BY <1>2, <1>3, OccursBehind, JoinIs DEF Marks
<1>5. PICK u \in Texts : u = c ++ z /\ Occurs(y, u)
  BY <1>4
<1>6. Occurs(y, p ++ u)
  BY <1>5, OccursBehind
<1> QED
  BY <1>1, <1>2, <1>5, <1>6 DEF Field, Around

\* Replacing does not reach over the ends of a field.
LEMMA FieldKept ==
  ASSUME NEW c, NEW b, Marks(c, b), NEW p \in Texts, NEW y \in Texts, NEW q \in Texts,
         NEW v \in Texts, v # <<>>, NEW w \in Texts, Colon \notin ToSet(v), Break \notin ToSet(v)
  PROVE  Substituted(Field(c, b, p, y, q), v, w)
           = Field(c, b, Substituted(p, v, w), Substituted(y, v, w), Substituted(q, v, w))
<1> DEFINE Sub(t) == Substituted(t, v, w)
<1>1. c \in Texts /\ b \in Texts /\ Apart(c, v) /\ Apart(b, v)
  BY DEF Marks, Apart
<1>2. ASSUME NEW s \in Texts, Apart(s, v), NEW r \in Texts, NEW t \in Texts
      PROVE  Sub(Around(t, s, r)) = Around(Sub(t), s, Sub(r))
  BY <1>2, SubAround
<1> HIDE DEF Sub
<1>4. PICK r \in Texts : r = Around(y, b, q)
  <2>1. Around(y, b, q) \in Texts
    BY FieldIsText DEF Around
  <2> QED
    BY <2>1
<1>5. Sub(Around(p, c, r)) = Around(Sub(p), c, Sub(r))
  BY <1>1, <1>2
<1>6. Sub(Around(y, b, q)) = Around(Sub(y), b, Sub(q))
  BY <1>1, <1>2
<1>7. Sub(Field(c, b, p, y, q)) = Field(c, b, Sub(p), Sub(y), Sub(q))
  BY <1>4, <1>5, <1>6 DEF Field
<1> QED
  BY <1>7 DEF Sub

\* One value more, seen from a field that showed v0.
LEMMA FieldTokenised ==
  ASSUME NEW c, NEW b, Marks(c, b), NEW v0 \in Texts,
         NEW s, s.text \in Texts, s.tokens \in Seq(Masks),
         NEW p \in Texts, NEW q \in Texts, s.text = Field(c, b, p, Replaced(v0, s.tokens), q),
         NEW w, Word(w), Colon \notin ToSet(w), Break \notin ToSet(w), NEW kind \in Kinds,
         NEW r, r = Tokenised(s, w, kind)
  PROVE  /\ \E p2, q2 \in Texts : r.text = Field(c, b, p2, Replaced(v0, r.tokens), q2)
         /\ ~Occurs(w, Replaced(v0, s.tokens)) => Replaced(v0, r.tokens) = Replaced(v0, s.tokens)
         /\ w = Replaced(v0, s.tokens) => OneToken(Replaced(v0, r.tokens), Len(r.tokens))
         /\ Len(r.tokens) \in Nat /\ Len(s.tokens) \in Nat /\ Len(r.tokens) >= Len(s.tokens)
<1>1. PICK y \in Texts : y = Replaced(v0, s.tokens)
  BY ReplacedText
<1>2. w \in Texts /\ w # <<>>
  BY WordIs
<1>3. PICK n \in Nat : n = Len(s.tokens)
  BY LenProperties
<1>4. CASE ~Occurs(w, s.text)
  <2>1. r = s
    BY <1>4 DEF Tokenised
  <2>2. w # y
    BY <1>1, <1>2, <1>4, FieldShows
  <2> QED
    BY <1>1, <1>3, <2>1, <2>2
<1>5. CASE Occurs(w, s.text)
  <2>1. PICK T : T = TokenFor(s, kind) /\ Tok(T) /\ \E m \in 1..(n + 1) : T = Token(kind, m)
    BY <1>3, TokenForIs
  <2>2. PICK e \in Masks : e = <<w, T>> /\ e[1] = w /\ e[2] = T
    <3>1. T \in Texts
      BY <2>1, TokIs
    <3>2. <<w, T>> \in Masks
      BY <1>2, <2>1, <3>1 DEF Masks
    <3> QED
      BY <3>2
  <2>3. r.text = Substituted(s.text, w, T) /\ r.tokens = Append(s.tokens, e)
    BY <1>5, <2>1, <2>2 DEF Tokenised
  <2>4. Len(r.tokens) = n + 1
    BY <1>3, <2>3, AppendProperties
  <2>5. Replaced(v0, Append(s.tokens, e)) = Substituted(Replaced(v0, s.tokens), e[1], e[2])
    BY ReplacedLast
  <2>6. Replaced(v0, r.tokens) = Substituted(y, w, T)
    BY <1>1, <2>2, <2>3, <2>5
  <2>7. T \in Texts
    BY <2>1, TokIs
  <2>8. Substituted(p, w, T) \in Texts /\ Substituted(q, w, T) \in Texts
    BY <1>2, <2>7, SubText
  <2>9. Substituted(Field(c, b, p, y, q), w, T)
           = Field(c, b, Substituted(p, w, T), Substituted(y, w, T), Substituted(q, w, T))
    BY <1>2, <2>7, FieldKept
  <2>10. r.text = Field(c, b, Substituted(p, w, T), Replaced(v0, r.tokens), Substituted(q, w, T))
    BY <1>1, <2>3, <2>6, <2>9
  <2>11. ~Occurs(w, y) => Substituted(y, w, T) = y
    BY <1>2, SubKept
  <2>12. w = y => Substituted(y, w, T) = T
    BY <1>2, <2>7, SubWhole
  <2>13. OneToken(T, n + 1)
    BY <2>1 DEF OneToken
  <2>14. \E p2, q2 \in Texts : r.text = Field(c, b, p2, Replaced(v0, r.tokens), q2)
    BY <2>8, <2>10
  <2>15. ~Occurs(w, y) => Replaced(v0, r.tokens) = y
    BY <2>6, <2>11
  <2>16. w = y => OneToken(Replaced(v0, r.tokens), Len(r.tokens))
    BY <2>4, <2>6, <2>12, <2>13
  <2>17. Len(r.tokens) \in Nat /\ Len(s.tokens) \in Nat /\ Len(r.tokens) >= Len(s.tokens)
    BY <1>3, <2>4
  <2> QED
    BY <1>1, <2>14, <2>15, <2>16, <2>17
<1> QED
  BY <1>4, <1>5

----------------------------------------------------------------------------
\* The prompt is a text.

Flat(s, f, i) == IF i = 1 THEN s[i] ELSE f[i - 1] ++ s[i]
FlatTo(s, n, f) == f = [i \in 1..n |-> Flat(s, f, i)]

LEMMA FlatExists ==
  ASSUME NEW s, NEW n \in Nat
  PROVE  \E f : FlatTo(s, n, f)
<1> DEFINE U == {k \in Nat : \E f : FlatTo(s, k, f)}
<1>1. 0 \in U
  <2> DEFINE f == [i \in 1..0 |-> <<>>]
  <2>1. f = [i \in 1..0 |-> Flat(s, f, i)]
    OBVIOUS
  <2>2. FlatTo(s, 0, f)
    BY <2>1, Zenon DEF FlatTo
  <2> QED
    BY <2>2
<1>2. ASSUME NEW k \in Nat, k \in U PROVE k + 1 \in U
  <2>1. PICK f : FlatTo(s, k, f)
    BY <1>2
  <2> DEFINE g == [i \in 1..(k + 1) |-> Flat(s, f, i)]
  <2>2. ASSUME NEW j \in 1..k PROVE f[j] = g[j]
    <3>1. f[j] = Flat(s, f, j)
      BY <2>1 DEF FlatTo
    <3>2. j \in 1..(k + 1)
      OBVIOUS
    <3> QED
      BY <3>1, <3>2
  <2>3. ASSUME NEW i \in 1..(k + 1) PROVE Flat(s, f, i) = Flat(s, g, i)
    <3> HIDE DEF g
    <3>1. CASE i = 1
      BY <3>1 DEF Flat
    <3>2. CASE i # 1
      <4>1. i - 1 \in 1..k
        BY <3>2
      <4>2. f[i - 1] = g[i - 1]
        BY <2>2, <4>1
      <4> QED
        BY <4>2, Zenon DEF Flat
    <3> QED
      BY <3>1, <3>2
  <2>4. [i \in 1..(k + 1) |-> Flat(s, f, i)] = [i \in 1..(k + 1) |-> Flat(s, g, i)]
    <3> HIDE DEF g
    <3> QED
      BY <2>3
  <2>5. FlatTo(s, k + 1, g)
    BY <2>4, Zenon DEF FlatTo
  <2> QED
    BY <2>5
<1> HIDE DEF U
<1>3. Nat \subseteq U
  BY <1>1, <1>2, CountUp
<1>4. n \in U
  BY <1>3
<1> QED
  BY <1>4 DEF U

LEMMA FlattenText ==
  ASSUME NEW s \in Seq(Texts)
  PROVE  FlattenSeq(s) \in Texts
<1>1. PICK n \in Nat : n = Len(s)
  BY LenProperties
<1>2. CASE n = 0
  <2>1. s = <<>>
    BY <1>1, <1>2, EmptySeq
  <2>2. FlattenSeq(s) = s
    BY <1>1, <1>2 DEF FlattenSeq, ++
  <2> QED
    BY <2>1, <2>2, NoneIs
<1>3. CASE n # 0
  <2> DEFINE f == CHOOSE g : FlatTo(s, n, g)
  <2>1. FlattenSeq(s) = f[n]
    BY <1>1, <1>3, Zenon DEF FlattenSeq, FlatTo, Flat, ++
  <2>2. FlatTo(s, n, f)
    BY FlatExists
  <2> HIDE DEF f
  <2>3. ASSUME NEW i \in 1..n PROVE f[i] = Flat(s, f, i) /\ s[i] \in Texts
    BY <1>1, <2>2, ElementOfSeq DEF FlatTo
  <2> DEFINE U == {k \in Nat : k + 1 <= n => f[k + 1] \in Texts}
  <2>4. 0 \in U
    <3>1. 1 \in 1..n
      BY <1>3
    <3>2. f[1] = s[1] /\ s[1] \in Texts
      BY <2>3, <3>1 DEF Flat
    <3> QED
      BY <3>2
  <2>5. ASSUME NEW k \in Nat, k \in U PROVE k + 1 \in U
    <3>1. ASSUME k + 2 <= n PROVE f[k + 2] \in Texts
      <4>1. k + 2 \in 1..n /\ k + 2 # 1 /\ (k + 2) - 1 = k + 1
        BY <3>1
      <4>2. f[k + 2] = f[k + 1] ++ s[k + 2] /\ s[k + 2] \in Texts
        BY <2>3, <4>1 DEF Flat
      <4>3. f[k + 1] \in Texts
        BY <2>5, <3>1
      <4> QED
        BY <4>2, <4>3, JoinIs
    <3>2. (k + 1) + 1 = k + 2 /\ k + 1 \in Nat
      OBVIOUS
    <3> QED
      BY <3>1, <3>2
  <2>6. n - 1 \in U
    <3> HIDE DEF U
    <3>1. Nat \subseteq U
      BY <2>4, <2>5, CountUp
    <3>2. n - 1 \in Nat
      BY <1>3
    <3> QED
      BY <3>1, <3>2
  <2>7. (n - 1) + 1 = n
    OBVIOUS
  <2> QED
    BY <2>1, <2>6, <2>7
<1> QED
  BY <1>2, <1>3

LEMMA MarksAre == Marks(<<": ">>, <<"\n">>)
<1>1. Colon \in Pieces /\ Break \in Pieces
  BY PiecesAre
<1>2. PICK x : x = Colon
  OBVIOUS
<1>3. PICK y : y = Break
  OBVIOUS
<1>4. <<x>> \in Texts /\ Len(<<x>>) = 1 /\ <<x>>[1] = x
  BY <1>1, <1>2, OneIs
<1>5. <<y>> \in Texts /\ Len(<<y>>) = 1 /\ <<y>>[1] = y
  BY <1>1, <1>3, OneIs
<1>6. Marks(<<x>>, <<y>>)
  BY <1>2, <1>3, <1>4, <1>5 DEF Marks
<1>7. <<x>> = <<": ">> /\ <<y>> = <<"\n">>
  BY <1>2, <1>3 DEF Colon, Break
<1> QED
  BY <1>6, <1>7

LEMMA LineText ==
  ASSUME NEW f \in Texts \X Texts
  PROVE  FieldLine(f) \in Texts
<1>1. PICK c, b : c = <<": ">> /\ b = <<"\n">> /\ Marks(c, b)
  BY MarksAre
<1>2. c \in Texts /\ b \in Texts
  BY <1>1 DEF Marks
<1>3. PICK x \in Texts : x = f[1] ++ c
  BY <1>2, JoinIs
<1>4. PICK y \in Texts : y = x ++ f[2]
  BY JoinIs
<1>5. y ++ b \in Texts
  BY <1>2, JoinIs
<1> QED
  BY <1>1, <1>3, <1>4, <1>5 DEF FieldLine, ++

LEMMA SectionText ==
  ASSUME NEW a \in [ref : Texts, fields : Seq(Texts \X Texts)], NEW cap \in Nat
  PROVE  Section(a, cap) \in Texts
<1>1. PICK n \in Nat : n = Len(a.fields)
  BY LenProperties
<1>2. PICK m \in Nat : m = (IF cap < Len(a.fields) THEN cap ELSE Len(a.fields)) /\ m <= n
  BY <1>1
<1>3. ASSUME NEW j \in 1..m PROVE FieldLine(a.fields[j]) \in Texts
  <2>1. j \in 1..Len(a.fields)
    BY <1>1, <1>2
  <2>2. a.fields[j] \in Texts \X Texts
    BY <2>1, ElementOfSeq
  <2> QED
    BY <2>2, LineText
<1> DEFINE s == [j \in 1..m |-> FieldLine(a.fields[j])]
<1>4. s \in Seq(Texts)
  BY <1>3
<1>5. FieldLines(a, cap) = FlattenSeq(s)
  BY <1>2 DEF FieldLines
<1> HIDE DEF s
<1>6. FieldLines(a, cap) \in Texts
  BY <1>4, <1>5, FlattenText
<1>7. PICK b \in Texts : b = <<"\n">>
  BY MarksAre DEF Marks
<1>8. PICK r \in Texts : r = a.ref
  OBVIOUS
<1>9. PICK x \in Texts : x = r ++ b
  BY JoinIs
<1>10. x ++ FieldLines(a, cap) \in Texts
  BY <1>6, JoinIs
<1> QED
  BY <1>7, <1>8, <1>9, <1>10 DEF Section, ++

LEMMA PromptText ==
  ASSUME NEW d \in Dossiers, NEW caps \in [DOMAIN d -> Caps], NEW cut \in Cuts
  PROVE  Prompt(Evidence(d, caps, cut)) \in Texts
<1> DEFINE A == [ref : Texts, fields : Seq(Texts \X Texts)]
           s == [i \in DOMAIN d |-> Section(d[i], caps[i])]
<1>1. d \in Seq(A) /\ Caps \subseteq Nat /\ cut \in Nat /\ Techniques \in Seq(Texts)
  BY ReasonerAssumption
<1>2. Len(d) \in Nat /\ DOMAIN d = 1..Len(d) /\ \A i \in 1..Len(d) : d[i] \in A
  <2> HIDE DEF A
  <2> QED
    BY <1>1, LenProperties, ElementOfSeq
<1>3. ASSUME NEW i \in 1..Len(d) PROVE Section(d[i], caps[i]) \in Texts
  <2>1. d[i] \in A /\ caps[i] \in Nat
    BY <1>1, <1>2
  <2> QED
    BY <2>1, SectionText
<1>4. s \in Seq(Texts)
  BY <1>2, <1>3
<1>5. PICK xml \in Texts : xml = FlattenSeq(s)
  <2> HIDE DEF s
  <2> QED
    BY <1>4, FlattenText
<1>6. PICK m \in Texts : m = <<"\n", "[truncated]", "\n">>
  <2>1. "[truncated]" \in Pieces
    BY ReasonerAssumption
  <2>2. Break \in Pieces
    BY PiecesAre
  <2>3. PICK x, y : x = Break /\ y = "[truncated]"
    OBVIOUS
  <2>4. \E t \in Texts : t = <<x, y, x>>
    BY <2>1, <2>2, <2>3, ThreeAre
  <2>5. <<x, y, x>> = <<"\n", "[truncated]", "\n">>
    BY <2>3 DEF Break
  <2> QED
    BY <2>4, <2>5
<1>7. PICK e \in Texts : e = Evidence(d, caps, cut)
  <2>1. CASE cut < Len(xml)
    <3>1. \A i \in 1..cut : xml[i] \in Pieces
      BY <1>1, <2>1, TextIs
    <3>2. SubSeq(xml, 1, cut) \in Texts
      BY <1>1, <3>1, SubSeqProperties DEF Texts
    <3>3. SubSeq(xml, 1, cut) ++ m \in Texts
      BY <3>2, JoinIs
    <3>4. Evidence(d, caps, cut) = SubSeq(xml, 1, cut) ++ m
      BY <1>5, <1>6, <2>1, Zenon DEF Evidence, ++
    <3> QED
      BY <3>3, <3>4
  <2>2. CASE ~(cut < Len(xml))
    <3>1. Evidence(d, caps, cut) = xml
      BY <1>5, <2>2, Zenon DEF Evidence, ++
    <3> QED
      BY <3>1
  <2> QED
    BY <2>1, <2>2
<1>8. PICK b \in Texts : b = <<"\n">>
  BY MarksAre DEF Marks
<1> DEFINE ts == [i \in DOMAIN Techniques |-> Techniques[i] \o <<"\n">>]
<1>9. ts \in Seq(Texts)
  <2>1. Len(Techniques) \in Nat /\ DOMAIN Techniques = 1..Len(Techniques)
    BY <1>1, LenProperties
  <2>2. ASSUME NEW i \in 1..Len(Techniques) PROVE Techniques[i] ++ b \in Texts
    <3>1. Techniques[i] \in Texts
      BY <1>1, ElementOfSeq
    <3> QED
      BY <3>1, JoinIs
  <2>3. ts = [i \in 1..Len(Techniques) |-> Techniques[i] ++ b]
    BY <1>8, <2>1 DEF ++
  <2> HIDE DEF ts
  <2> QED
    BY <2>1, <2>2, <2>3
<1>10. FlattenSeq(ts) \in Texts
  <2> HIDE DEF ts
  <2> QED
    BY <1>9, FlattenText
<1>11. e ++ FlattenSeq(ts) \in Texts
  <2> HIDE DEF ts
  <2> QED
    BY <1>10, JoinIs
<1> QED
  BY <1>7, <1>11 DEF Prompt, ++

----------------------------------------------------------------------------
\* A field that shows a known value goes out with one token in its place.

LEMMA NoWordInToken ==
  ASSUME NEW w, Word(w), NEW T, Tok(T)
  PROVE  ~Occurs(w, T)
<1>1. T \in Texts /\ w \in Texts
  BY TokIs, WordIs
<1>2. T ++ <<>> = T /\ <<>> \in Texts
  BY <1>1, NoneIs
<1>3. ASSUME Occurs(w, T) PROVE Occurs(w, <<>>)
  <2>1. PICK u \in Texts : u = <<>>
    BY <1>2
  <2>2. Occurs(w, T ++ u)
    BY <1>2, <1>3, <2>1
  <2>3. Occurs(w, u)
    BY <2>2, WordBehind
  <2> QED
    BY <2>1, <2>3
<1> QED
  BY <1>1, <1>3, OccursNowhere

LEMMA OneTokenIs ==
  ASSUME NEW t, NEW n \in Nat, OneToken(t, n)
  PROVE  Tok(t) /\ \A m \in Nat : n <= m => OneToken(t, m)
<1>1. PICK kind \in Kinds, i \in 1..n : t = Token(kind, i)
  BY DEF OneToken
<1>2. i \in Nat
  OBVIOUS
<1>3. Tok(t)
  BY <1>1, <1>2, TokenIs
<1>4. ASSUME NEW m \in Nat, n <= m PROVE OneToken(t, m)
  <2>1. i \in 1..m
    BY <1>4
  <2> QED
    BY <1>1, <2>1 DEF OneToken
<1> QED
  BY <1>3, <1>4

LEMMA FieldRedacted ==
  ASSUME NEW d \in Dossiers, ~Clash(d), ~Torn(d), NEW text \in Texts,
         NEW c, NEW b, Marks(c, b), NEW p \in Texts, NEW q \in Texts,
         NEW v \in KnownValues(d), text = Field(c, b, p, v, q)
  PROVE  LET s == Redact(text, d)
             t == Replaced(v, s.tokens)
         IN /\ OneToken(t, Len(s.tokens))
            /\ \E p2, q2 \in Texts : s.text = Field(c, b, p2, t, q2)
<1>1. PICK V \in Seq(Texts \X Kinds) : V = Values(d)
  BY ValuesAre
<1>2. PICK n \in Nat : n = Len(V)
  BY LenProperties
<1>3. PICK a : /\ a[0] = [text |-> text, tokens |-> <<>>]
               /\ \A k \in 1..n : a[k] = Tokenised(a[k - 1], V[k][1], V[k][2])
               /\ Redact(text, d) = a[n]
  BY <1>1, <1>2, RedactRuns
<1>4. \A i \in 1..n : Word(V[i][1]) /\ V[i][2] \in Kinds /\ Colon \notin ToSet(V[i][1]) /\ Break \notin ToSet(V[i][1])
  BY <1>1, <1>2, ValueIs
<1>5. PICK j \in 1..n : V[j][1] = v /\ \A i \in 1..(j - 1) : ~Occurs(V[i][1], v)
  BY <1>1, <1>2, FirstSeen
<1>6. v \in Texts
  BY <1>2, <1>5, ElementOfSeq
<1> DEFINE Y(k) == Replaced(v, a[k].tokens)
           Good(k) == /\ Redacting(a[k], text)
                      /\ \E p2, q2 \in Texts : a[k].text = Field(c, b, p2, Y(k), q2)
                      /\ k < j => Y(k) = v
                      /\ j <= k => OneToken(Y(k), Len(a[k].tokens))
           U == {k \in Nat : k <= n => Good(k)}
<1>7. 0 \in U
  <2>1. Redacting(a[0], text)
    BY <1>3, RedactingStarts
  <2>2. a[0].text = text /\ a[0].tokens = <<>>
    BY <1>3
  <2>3. Y(0) = v
    BY <2>2, ReplacedNone
  <2>4. 0 < j
    OBVIOUS
  <2>5. \E p2, q2 \in Texts : a[0].text = Field(c, b, p2, Y(0), q2)
    BY <2>2, <2>3
  <2> HIDE DEF Y
  <2>6. Good(0)
    BY <2>1, <2>3, <2>4, <2>5
  <2> HIDE DEF Good
  <2> QED
    BY <2>6
<1>8. ASSUME NEW k \in Nat, k \in U, k + 1 <= n PROVE Good(k + 1)
  <2>1. k + 1 \in 1..n /\ (k + 1) - 1 = k /\ k <= n /\ j \in Nat
    BY <1>8
  <2> HIDE DEF Y
  <2>2. Good(k)
    <3> HIDE DEF Good
    <3> QED
      BY <1>8, <2>1
  <2>3. PICK s : s = a[k]
    OBVIOUS
  <2>4. PICK r : r = a[k + 1]
    OBVIOUS
  <2>5. PICK w, kind : w = V[k + 1][1] /\ kind = V[k + 1][2]
    OBVIOUS
  <2>6. Word(w) /\ kind \in Kinds /\ Colon \notin ToSet(w) /\ Break \notin ToSet(w)
    BY <1>4, <2>1, <2>5
  <2>7. r = Tokenised(s, w, kind)
    BY <1>3, <2>1, <2>3, <2>4, <2>5
  <2>8. Redacting(s, text)
    BY <2>2, <2>3
  <2>9. Redacting(r, text)
    BY <2>6, <2>7, <2>8, TokenisedIs
  <2>10. s.text \in Texts /\ s.tokens \in Seq(Masks)
    BY <2>8 DEF Redacting
  <2>11. Y(k) = Replaced(v, s.tokens) /\ Y(k + 1) = Replaced(v, r.tokens)
    BY <2>3, <2>4 DEF Y
  <2>12. PICK p1, q1 \in Texts : s.text = Field(c, b, p1, Replaced(v, s.tokens), q1)
    BY <2>2, <2>3, <2>11
  <2>13. /\ \E p2, q2 \in Texts : r.text = Field(c, b, p2, Replaced(v, r.tokens), q2)
         /\ ~Occurs(w, Replaced(v, s.tokens)) => Replaced(v, r.tokens) = Replaced(v, s.tokens)
         /\ w = Replaced(v, s.tokens) => OneToken(Replaced(v, r.tokens), Len(r.tokens))
         /\ Len(r.tokens) \in Nat /\ Len(s.tokens) \in Nat /\ Len(r.tokens) >= Len(s.tokens)
    BY <1>6, <2>6, <2>7, <2>10, <2>12, FieldTokenised
  <2>14. PICK y, z : y = Replaced(v, s.tokens) /\ z = Replaced(v, r.tokens)
    OBVIOUS
  <2>15. (k < j => y = v) /\ (j <= k => OneToken(y, Len(s.tokens)))
    BY <2>2, <2>3, <2>11, <2>14
  <2>16. /\ ~Occurs(w, y) => z = y
         /\ w = y => OneToken(z, Len(r.tokens))
    BY <2>13, <2>14
  <2>17. ASSUME k + 1 < j PROVE z = v
    <3>1. k < j /\ k + 1 \in 1..(j - 1)
      BY <2>1, <2>17
    <3>2. ~Occurs(w, v)
      BY <1>5, <2>5, <3>1
    <3> QED
      BY <2>15, <2>16, <3>1, <3>2
  <2>18. ASSUME j <= k + 1 PROVE OneToken(z, Len(r.tokens))
    <3>1. CASE j = k + 1
      <4>1. k < j
        BY <3>1
      <4>2. w = v
        BY <1>5, <2>5, <3>1
      <4> QED
        BY <2>15, <2>16, <4>1, <4>2
    <3>2. CASE j # k + 1
      <4>1. j <= k
        BY <2>1, <2>18, <3>2
      <4>2. Tok(y) /\ OneToken(y, Len(r.tokens))
        BY <2>13, <2>15, <4>1, OneTokenIs
      <4>3. ~Occurs(w, y)
        BY <2>6, <4>2, NoWordInToken
      <4> QED
        BY <2>16, <4>2, <4>3
    <3> QED
      BY <3>1, <3>2
  <2>19. \E p2, q2 \in Texts : r.text = Field(c, b, p2, z, q2)
    BY <2>13, <2>14
  <2>20. Y(k + 1) = z
    BY <2>11, <2>14
  <2> QED
    BY <2>4, <2>9, <2>17, <2>18, <2>19, <2>20
<1>9. \A k \in Nat : k \in U => k + 1 \in U
  BY <1>8
<1>10. Good(n)
  <2> HIDE DEF Good
  <2>1. n \in U
    <3> HIDE DEF U
    <3>1. Nat \subseteq U
      BY <1>7, <1>9, CountUp
    <3> QED
      BY <3>1
  <2> QED
    BY <2>1
<1>11. j <= n
  OBVIOUS
<1>12. OneToken(Y(n), Len(a[n].tokens)) /\ \E p2, q2 \in Texts : a[n].text = Field(c, b, p2, Y(n), q2)
  <2> HIDE DEF Y
  <2> QED
    BY <1>10, <1>11
<1> QED
  BY <1>3, <1>12

LEMMA JoinShift ==
  ASSUME NEW a \in Texts, NEW b \in Texts, NEW c \in Texts, NEW ab, ab = a ++ b, NEW bc, bc = b ++ c
  PROVE  ab ++ c = a ++ bc
<1>1. (a ++ b) ++ c = a ++ (b ++ c)
  BY JoinThree
<1> QED
  BY <1>1, Zenon

Line(x, c, y, b) == x ++ c ++ y ++ b

LEMMA LineShift ==
  ASSUME NEW x \in Texts, NEW c \in Texts, NEW y \in Texts, NEW b \in Texts, NEW q \in Texts,
         NEW l \in Texts, l = Line(x, c, y, b)
  PROVE  \E u \in Texts : l ++ q = x ++ u /\ \A p \in Texts : Field(c, b, p, y, q) = p ++ u
<1>1. PICK xc \in Texts : xc = x ++ c
  BY JoinIs
<1>2. PICK xcy \in Texts : xcy = xc ++ y
  BY JoinIs
<1>3. l = xcy ++ b
  BY <1>1, <1>2 DEF Line
<1>4. PICK bq \in Texts : bq = b ++ q
  BY JoinIs
<1>5. l ++ q = xcy ++ bq
  BY <1>3, <1>4, JoinShift
<1>6. PICK ybq \in Texts : ybq = y ++ bq
  BY JoinIs
<1>7. xcy ++ bq = xc ++ ybq
  BY <1>2, <1>6, JoinShift
<1>8. PICK cybq \in Texts : cybq = c ++ ybq
  BY JoinIs
<1>9. xc ++ ybq = x ++ cybq
  BY <1>1, <1>8, JoinShift
<1>10. \A p \in Texts : Field(c, b, p, y, q) = p ++ cybq
  BY <1>4, <1>6, <1>8 DEF Field, Around
<1>11. l ++ q = x ++ cybq
  BY <1>5, <1>7, <1>9
<1>12. \A p \in Texts : Field(c, b, p, y, q) = p ++ cybq
  BY <1>10
<1> QED
  BY <1>8, <1>11, <1>12

LEMMA LineAround ==
  ASSUME NEW c, NEW b, Marks(c, b), NEW x \in Texts, NEW y \in Texts,
         NEW l \in Texts, l = Line(x, c, y, b), NEW t \in Texts, Occurs(l, t)
  PROVE  \E p, q \in Texts : t = Field(c, b, p, y, q)
<1>1. c \in Texts /\ b \in Texts /\ Len(b) = 1
  BY DEF Marks
<1>2. l # <<>>
  <2>1. PICK xc \in Texts : xc = x ++ c
    BY <1>1, JoinIs
  <2>2. PICK u \in Texts : u = xc ++ y
    BY JoinIs
  <2>3. Len(u ++ b) = Len(u) + Len(b) /\ Len(u) \in Nat
    BY <1>1, JoinIs, TextIs
  <2>4. Len(l) # 0
    BY <1>1, <2>1, <2>2, <2>3 DEF Line
  <2> QED
    BY <2>4, NoneIs
<1>3. PICK p, q \in Texts : t = p ++ (l ++ q)
  BY <1>2, OccursSplit
<1>4. PICK u \in Texts : l ++ q = x ++ u /\ \A r \in Texts : Field(c, b, r, y, q) = r ++ u
  BY <1>1, LineShift
<1>5. PICK px \in Texts : px = p ++ x
  BY JoinIs
<1>6. PICK xu \in Texts : xu = x ++ u
  BY JoinIs
<1>7. px ++ u = p ++ xu
  BY <1>5, <1>6, JoinShift
<1>8. t = p ++ xu
  <2>1. l ++ q = x ++ u
    BY <1>4
  <2> QED
    BY <1>3, <1>6, <2>1
<1>9. t = px ++ u
  BY <1>7, <1>8, Zenon
<1>10. t = Field(c, b, px, y, q)
  BY <1>4, <1>5, <1>9
<1> QED
  BY <1>10, Zenon

\* A line of a field in a text, and what a reader finds of it.
LEMMA LineStands ==
  ASSUME NEW f \in Texts \X Texts, NEW t \in Texts, Occurs(FieldLine(f), t)
  PROVE  \E c, b : /\ Marks(c, b) /\ c = <<": ">> /\ b = <<"\n">>
                   /\ \E p, q \in Texts : t = Field(c, b, p, f[2], q)
<1>1. PICK c, b : c = <<": ">> /\ b = <<"\n">> /\ Marks(c, b)
  BY MarksAre
<1>2. PICK x, y \in Texts : x = f[1] /\ y = f[2]
  OBVIOUS
<1>3. PICK l \in Texts : l = FieldLine(f)
  BY LineText
<1>4. Occurs(l, t)
  BY <1>3, Zenon
<1>5. l = Line(x, c, y, b)
  BY <1>1, <1>2, <1>3, Zenon DEF FieldLine, Line, ++
<1>6. Marks(c, b)
  BY <1>1
<1>7. \E p, q \in Texts : t = Field(c, b, p, y, q)
  BY ONLY <1>4, <1>5, <1>6, x \in Texts, y \in Texts, l \in Texts, t \in Texts, LineAround
<1> QED
  BY <1>1, <1>2, <1>7, Zenon

LEMMA TokenStands ==
  ASSUME NEW c, NEW b, Marks(c, b), NEW p \in Texts, NEW q \in Texts, NEW t \in Texts
  PROVE  Occurs(c ++ t ++ b, Field(c, b, p, t, q))
<1>1. c \in Texts /\ b \in Texts /\ Len(b) = 1
  BY DEF Marks
<1>2. PICK ct \in Texts : ct = c ++ t
  BY <1>1, JoinIs
<1>3. PICK l \in Texts : l = ct ++ b
  BY <1>1, JoinIs
<1>4. PICK bq \in Texts : bq = b ++ q
  BY <1>1, JoinIs
<1>5. PICK tbq \in Texts : tbq = t ++ bq
  BY JoinIs
<1>6. l ++ q = ct ++ bq
  BY <1>1, <1>3, <1>4, JoinShift
<1>7. ct ++ bq = c ++ tbq
  BY <1>1, <1>2, <1>5, JoinShift
<1>8. Field(c, b, p, t, q) = p ++ (c ++ tbq)
  BY <1>4, <1>5 DEF Field, Around
<1>9. l # <<>>
  <2>1. Len(l) = Len(ct) + Len(b) /\ Len(ct) \in Nat
    BY <1>1, <1>3, JoinIs, TextIs
  <2>2. Len(l) # 0
    BY <1>1, <2>1
  <2> QED
    BY <2>2, NoneIs
<1>10. Occurs(l, p ++ (l ++ q))
  BY <1>9, OccursInside
<1>11. p ++ (l ++ q) = Field(c, b, p, t, q)
  BY <1>6, <1>7, <1>8
<1> QED
  BY <1>2, <1>3, <1>10, <1>11

----------------------------------------------------------------------------
\* What an analysis has asked.

LEMMA RedactedShows ==
  ASSUME NEW d \in Dossiers, ~Clash(d), ~Torn(d), NEW text \in Texts, NEW f \in Fields(d),
         f[2] \in KnownValues(d), Occurs(FieldLine(f), text)
  PROVE  LET s == Redact(text, d)
             t == Replaced(f[2], s.tokens)
         IN OneToken(t, Len(s.tokens)) /\ Occurs(<<": ">> \o t \o <<"\n">>, s.text)
<1>1. f \in Texts \X Texts
  BY DossierIs
<1>2. PICK s : s = Redact(text, d)
  OBVIOUS
<1>3. PICK c, b : /\ Marks(c, b) /\ c = <<": ">> /\ b = <<"\n">>
                  /\ \E p, q \in Texts : text = Field(c, b, p, f[2], q)
  BY <1>1, LineStands
<1>4. PICK p, q \in Texts : text = Field(c, b, p, f[2], q)
  BY <1>3
<1>5. PICK v \in KnownValues(d) : v = f[2]
  OBVIOUS
<1>6. text = Field(c, b, p, v, q)
  BY <1>4, <1>5
<1>7. /\ OneToken(Replaced(v, s.tokens), Len(s.tokens))
      /\ \E p2, q2 \in Texts : s.text = Field(c, b, p2, Replaced(v, s.tokens), q2)
  <2>1. Marks(c, b)
    BY <1>3
  <2>2. text = Field(c, b, p, v, q)
    BY <1>6
  <2> QED
    BY ONLY d \in Dossiers, ~Clash(d), ~Torn(d), text \in Texts, p \in Texts, q \in Texts,
            v \in KnownValues(d), <1>2, <2>1, <2>2, FieldRedacted
<1>8. PICK t : t = Replaced(v, s.tokens)
  OBVIOUS
<1>9. PICK p2, q2 \in Texts : s.text = Field(c, b, p2, t, q2)
  BY <1>7, <1>8
<1>10. t \in Texts
  <2>1. Redacting(s, text)
    BY <1>2, RedactIs
  <2>2. Len(s.tokens) \in Nat
    BY <2>1, LenProperties DEF Redacting
  <2>3. Tok(t)
    BY <1>7, <1>8, <2>2, OneTokenIs
  <2> QED
    BY <2>3, TokIs
<1>11. Occurs(c ++ t ++ b, Field(c, b, p2, t, q2))
  BY <1>3, <1>10, TokenStands
<1>12. Occurs(<<": ">> \o t \o <<"\n">>, s.text)
  BY <1>3, <1>9, <1>11, Zenon DEF ++
<1> QED
  BY <1>2, <1>5, <1>7, <1>8, <1>12, Zenon

\* While an answer is awaited, the text sent is the prompt about the evidence it
\* was asked on, redacted with it when the reasoner redacts.
Asked(a) ==
  /\ a.of \in Dossiers /\ a.prompt \in Texts
  /\ a.hides => LET s == Redact(a.prompt, a.of) IN a.sent = s.text /\ a.tokens = s.tokens
  /\ ~a.hides => a.sent = a.prompt /\ a.tokens = <<>>
AskedInv == dossier \in Dossiers /\ (analysis.at = "asked" => Asked(analysis))

LEMMA AskedHides ==
  ASSUME AskedInv
  PROVE  SentInTokens
<1> SUFFICES ASSUME analysis.at = "asked", analysis.hides, ~Clash(analysis.of)
             PROVE  /\ \A v \in KnownValues(analysis.of) : ~Occurs(v, analysis.sent)
                    /\ ~Torn(analysis.of) =>
                         \A f \in Fields(analysis.of) :
                           f[2] \in KnownValues(analysis.of) /\ Occurs(FieldLine(f), analysis.prompt) =>
                             LET t == AsSent(f[2])
                             IN /\ OneToken(t, Len(analysis.tokens))
                                /\ Occurs(<<": ">> \o t \o <<"\n">>, analysis.sent)
  BY DEF SentInTokens
<1>1. PICK d, text, s : /\ d = analysis.of /\ text = analysis.prompt
                        /\ s = Redact(text, d)
  OBVIOUS
<1>2. /\ d \in Dossiers /\ ~Clash(d) /\ text \in Texts /\ s = Redact(text, d)
      /\ s.text = analysis.sent /\ s.tokens = analysis.tokens
  BY <1>1 DEF AskedInv, Asked
<1>3. \A v \in KnownValues(d) : ~Occurs(v, s.text)
  BY <1>2, RedactIs
<1>4. ASSUME ~Torn(d), NEW f \in Fields(d), f[2] \in KnownValues(d), Occurs(FieldLine(f), text)
      PROVE  LET t == AsSent(f[2])
             IN /\ OneToken(t, Len(analysis.tokens))
                /\ Occurs(<<": ">> \o t \o <<"\n">>, analysis.sent)
  BY <1>2, <1>4, RedactedShows DEF AsSent
<1> QED
  BY <1>1, <1>2, <1>3, <1>4

----------------------------------------------------------------------------
\* Reading an answer back.

\* Tokens as the redactor gives them.
GivenTokens(ps) ==
  /\ ps \in Seq(Masks) /\ Once(ps)
  /\ \A i \in 1..Len(ps) : \E kind \in Kinds, m \in Nat : 1 <= m /\ ps[i][2] = Token(kind, m)

LEMMA NotForged ==
  ASSUME NEW t \in Texts, ~Forged(t), NEW kind \in Kinds, NEW m \in Nat, 1 <= m
  PROVE  ~Occurs(Token(kind, m), t)
<1>1. PICK T : T = Token(kind, m)
  OBVIOUS
<1>2. Tok(T) /\ Len(T) = m + 4
  BY <1>1, TokenIs
<1>3. ASSUME Occurs(T, t) PROVE FALSE
  <2>1. Len(T) <= Len(t) /\ Len(t) \in Nat
    BY <1>2, <1>3, TokIs, OccursLonger, TextIs
  <2>2. m \in 1..Len(t)
    BY <1>2, <2>1
  <2> QED
    BY <1>1, <1>3, <2>2 DEF Forged
<1> QED
  BY <1>1, <1>3

LEMMA Restores ==
  ASSUME NEW ps, GivenTokens(ps), NEW t \in Texts, ~Forged(t)
  PROVE  Replaced(t, ps) \in Texts /\ Restore(Replaced(t, ps), ps) = t
<1>1. ps \in Seq(Masks) /\ Once(ps)
  BY DEF GivenTokens
<1>2. \A i \in 1..Len(ps) : ~Occurs(ps[i][2], t)
  BY NotForged DEF GivenTokens
<1>3. Replaced(Replaced(t, ps), Turned(ps)) = t
  BY <1>1, <1>2, RoundTrip
<1> QED
  BY <1>1, <1>3, ReplacedText DEF Restore

\* A text without brackets shows no token, and nothing is restored in it.
LEMMA NoTokenIn ==
  ASSUME NEW t \in Texts, ToSet(t) \cap Brackets = {}, NEW T, Tok(T)
  PROVE  ~Occurs(T, t)
<1>1. SUFFICES ASSUME Occurs(T, t) PROVE FALSE
  OBVIOUS
<1>2. T \in Texts /\ T # <<>> /\ Len(T) \in Nat /\ Len(T) >= 2 /\ T[1] = Open
  BY TokIs
<1>3. PICK i \in 1..Len(t) : At(T, t, i)
  BY <1>1, <1>2, OccursAt
<1>4. t[i] = Open
  <2>1. PICK j \in 1..Len(T) : j = 1
    BY <1>2
  <2>2. t[i + j - 1] = T[j] /\ i + j - 1 = i
    BY <1>3, <2>1 DEF At
  <2> QED
    BY <1>2, <2>1, <2>2
<1>5. Open \in ToSet(t)
  BY <1>4, TextIs
<1> QED
  BY <1>5, PiecesAre

LEMMA BareIs ==
  ASSUME NEW t \in Texts, ToSet(t) \cap Brackets = {}
  PROVE  /\ ~Forged(t)
         /\ \A ps : GivenTokens(ps) => Restore(t, ps) = t
<1>1. ~Forged(t)
  <2>1. ASSUME NEW kind \in Kinds, NEW n \in 1..Len(t) PROVE ~Occurs(Token(kind, n), t)
    <3>1. n \in Nat
      BY TextIs
    <3>2. Tok(Token(kind, n))
      BY <3>1, TokenIs
    <3> QED
      BY <3>2, NoTokenIn
  <2> QED
    BY <2>1 DEF Forged
<1> DEFINE Q == {qs \in Seq(Unmasks) : Replaced(t, qs) = t}
<1>2. <<>> \in Q
  BY ReplacedNone, EmptySeq
<1>3. ASSUME NEW s \in Seq(Unmasks), NEW e \in Unmasks, s \in Q PROVE Append(s, e) \in Q
  <2>1. Replaced(t, Append(s, e)) = Substituted(Replaced(t, s), e[1], e[2])
    BY ReplacedLast
  <2>2. Append(s, e) \in Seq(Unmasks) /\ Replaced(t, s) = t
    BY <1>3, AppendProperties
  <2>3. Tok(e[1]) /\ e[1] \in Texts /\ e[1] # <<>> /\ e[2] \in Texts
    BY UnmaskIs
  <2>4. ~Occurs(e[1], t)
    BY <2>3, NoTokenIn
  <2>5. Substituted(t, e[1], e[2]) = t
    BY <2>3, <2>4, SubKept
  <2> QED
    BY <2>1, <2>2, <2>5
<1>4. \A qs \in Seq(Unmasks) : qs \in Q
  <2> HIDE DEF Q
  <2> QED
    BY <1>2, <1>3, SequencesGrow
<1>5. ASSUME NEW ps, GivenTokens(ps) PROVE Restore(t, ps) = t
  <2>1. Turned(ps) \in Seq(Unmasks)
    BY <1>5, TurnedIs DEF GivenTokens
  <2> QED
    BY <1>4, <2>1 DEF Restore
<1> QED
  BY <1>1, <1>5

LEMMA InventionIs == Invention \in Texts /\ ToSet(Invention) \cap Brackets = {}
<1>1. PICK x : x = "made up"
  OBVIOUS
<1>2. x \in Pieces /\ x \notin Brackets
  BY <1>1, ReasonerAssumption DEF Brackets
<1>3. <<x>> \in Texts /\ Len(<<x>>) = 1 /\ <<x>>[1] = x
  BY <1>2, OneIs
<1>4. ToSet(<<x>>) = {x}
  <2>1. PICK u \in Texts : u = <<x>>
    BY <1>3
  <2>2. ToSet(u) = {u[i] : i \in 1..1}
    BY <1>3, <2>1, TextIs
  <2>3. 1..1 = {1}
    OBVIOUS
  <2> QED
    BY <1>3, <2>1, <2>2, <2>3
<1> QED
  BY <1>1, <1>2, <1>3, <1>4 DEF Invention

\* What a model cites of what it was sent is, read back, as much of what there was.
ReadBack(F, ps) == {Restore(x, ps) : x \in F}

LEMMA CitedIs ==
  ASSUME NEW ps, GivenTokens(ps), NEW K, IsFiniteSet(K), K \subseteq Texts, Invention \notin K,
         \A t \in K : ~Forged(t),
         NEW L, \A x \in L : \E t \in K : x = Replaced(t, ps), NEW F \in Citing(L)
  PROVE  /\ Cardinality(ReadBack(F, ps) \cap K) = Cardinality(F \ {Invention})
         /\ ReadBack(F, ps) \ K # {} <=> Invention \in F
<1> DEFINE R == {Restore(x, ps) : x \in F}
           G == F \ {Invention}
           h == [x \in G |-> Restore(x, ps)]
<1>0. F \in {{}, L, L \cup {Invention}}
  BY DEF Citing
<1>1. Restore(Invention, ps) = Invention
  BY InventionIs, BareIs
<1>2. ASSUME NEW x \in L PROVE Restore(x, ps) \in K /\ Replaced(Restore(x, ps), ps) = x /\ x # Invention
  <2>1. PICK t \in K : x = Replaced(t, ps)
    OBVIOUS
  <2>2. Restore(x, ps) = t
    BY <2>1, Restores
  <2> QED
    BY <1>1, <2>1, <2>2
<1>3. G \subseteq L
  BY <1>0
<1>4. R \cap K = {Restore(x, ps) : x \in G}
  BY <1>1, <1>2, <1>3
<1>5. h \in Bijection(G, R \cap K)
  <2>1. h \in [G -> R \cap K]
    BY <1>4
  <2>2. ASSUME NEW x \in G, NEW y \in G, h[x] = h[y] PROVE x = y
    BY <1>2, <1>3, <2>2
  <2>3. \A r \in R \cap K : \E x \in G : h[x] = r
    BY <1>4
  <2> HIDE DEF h, G, R
  <2> QED
    BY <2>1, <2>2, <2>3 DEF Bijection, Injection, Surjection, IsInjective
<1>6. Cardinality(R \cap K) = Cardinality(G)
  <2>1. R \cap K \subseteq K
    OBVIOUS
  <2> HIDE DEF h, G, R
  <2>2. IsFiniteSet(R \cap K)
    BY <2>1, FS_Subset
  <2>3. h \in Injection(G, R \cap K)
    BY <1>5 DEF Bijection
  <2>4. IsFiniteSet(G)
    BY <2>2, <2>3, FS_Injection
  <2> QED
    BY <1>5, <2>4, FS_Bijection DEF ExistsBijection
<1>7. R \ K # {} <=> Invention \in F
  <2>1. ASSUME Invention \in F PROVE R \ K # {}
    BY <1>1, <2>1
  <2>2. ASSUME Invention \notin F PROVE R \ K = {}
    <3>1. F \subseteq L
      BY <1>0, <2>2
    <3> QED
      BY <1>2, <3>1
  <2> QED
    BY <2>1, <2>2
<1> QED
  BY <1>6, <1>7 DEF ReadBack

LEMMA RedactingGives ==
  ASSUME NEW s, NEW text, Redacting(s, text)
  PROVE  GivenTokens(s.tokens) /\ s.text = Replaced(text, s.tokens)
<1>1. s.tokens \in Seq(Masks) /\ Once(s.tokens) /\ s.text = Replaced(text, s.tokens)
  BY DEF Redacting
<1>2. Len(s.tokens) \in Nat
  BY <1>1, LenProperties
<1>3. ASSUME NEW i \in 1..Len(s.tokens)
      PROVE  \E kind \in Kinds, m \in Nat : 1 <= m /\ s.tokens[i][2] = Token(kind, m)
  <2>1. PICK kind \in Kinds, m \in 1..Len(s.tokens) : s.tokens[i][2] = Token(kind, m)
    BY DEF Redacting
  <2>2. m \in Nat /\ 1 <= m
    BY <1>2
  <2> QED
    BY <2>1, <2>2
<1> QED
  BY <1>1, <1>3 DEF GivenTokens

LEMMA AskedTokens ==
  ASSUME AskedInv, analysis.at = "asked", ~Clash(analysis.of)
  PROVE  GivenTokens(analysis.tokens) /\ Replaced(analysis.prompt, analysis.tokens) = analysis.sent
<1>1. PICK d, text, s : /\ d = analysis.of /\ text = analysis.prompt
                        /\ s = [text |-> analysis.sent, tokens |-> analysis.tokens]
  OBVIOUS
<1>2. /\ d \in Dossiers /\ ~Clash(d) /\ text \in Texts
      /\ s.text = analysis.sent /\ s.tokens = analysis.tokens
      /\ analysis.hides => LET r == Redact(text, d) IN s.text = r.text /\ s.tokens = r.tokens
      /\ ~analysis.hides => s.text = text /\ s.tokens = <<>>
  BY <1>1 DEF AskedInv, Asked
<1>3. CASE analysis.hides
  <2>1. PICK r : r = Redact(text, d)
    OBVIOUS
  <2>2. GivenTokens(r.tokens) /\ r.text = Replaced(text, r.tokens)
    BY <1>2, <2>1, RedactIs, RedactingGives
  <2> QED
    BY <1>1, <1>2, <1>3, <2>1, <2>2
<1>4. CASE ~analysis.hides
  <2>1. s.text = text /\ s.tokens = <<>>
    BY <1>2, <1>4
  <2>2. <<>> \in Seq(Masks) /\ Len(<<>>) = 0
    BY EmptySeq
  <2>3. GivenTokens(<<>>)
    BY <2>2 DEF GivenTokens, Once
  <2>4. Replaced(text, <<>>) = text
    BY ReplacedNone
  <2> QED
    BY <1>1, <1>2, <2>1, <2>3, <2>4
<1> QED
  BY <1>3, <1>4

\* Techniques read back are those of the retriever, or made up.
LEMMA TechniquesRead ==
  ASSUME NEW ps, GivenTokens(ps), NEW S, S \subseteq DOMAIN Canonical,
         NEW L, \A x \in L : \E t \in S : x = Replaced(t, ps), NEW F \in Citing(L)
  PROVE  \A t \in ReadBack(F, ps) : Normalised(t) \in ToSet(Techniques) \cup {Invention}
<1>1. Restore(Invention, ps) = Invention
  BY InventionIs, BareIs
<1>2. Normalised(Invention) = Invention
  BY ReasonerAssumption DEF Normalised
<1>3. ASSUME NEW x \in L PROVE Normalised(Restore(x, ps)) \in ToSet(Techniques)
  <2>1. PICK t \in S : x = Replaced(t, ps)
    OBVIOUS
  <2>2. t \in DOMAIN Canonical /\ t \in Texts /\ ToSet(t) \cap Brackets = {} /\ Canonical[t] \in ToSet(Techniques)
    BY ReasonerAssumption
  <2>3. Restore(x, ps) = t
    BY <2>1, <2>2, BareIs, Restores
  <2> QED
    BY <2>2, <2>3 DEF Normalised
<1>4. \A x \in F : x \in L \/ x = Invention
  BY DEF Citing
<1> QED
  BY <1>1, <1>2, <1>3, <1>4 DEF ReadBack

LEMMA AnswerReads ==
  ASSUME AskedInv, Answer
  PROVE  AnswerStands'
<1>1. analysis.at = "asked"
  BY DEF Answer
<1>2. PICK fields \in Citing(Legible(Keys(analysis.of))), refs \in Citing(Legible(Refs(analysis.of))),
           techniques \in Citing({AsSent(t) : t \in Spelled}), confidence \in {30, 90} :
       LET v == [techniques |-> techniques, fields |-> fields, refs |-> refs,
                 says |-> analysis.sent, confidence |-> confidence]
       IN analysis' = [at |-> "answered", of |-> analysis.of, prompt |-> analysis.prompt,
                        honest |-> Invention \notin fields \cup refs,
                        cited |-> [fields |-> Cardinality(fields \ {Invention}),
                                   refs |-> Cardinality(refs \ {Invention})],
                        said |-> confidence,
                        verdict |-> Checked(v, analysis.tokens),
                        validation |-> Grounding(Checked(v, analysis.tokens), analysis.of)]
  BY DEF Answer
<1>3. PICK d, text, ps : d = analysis.of /\ text = analysis.prompt /\ ps = analysis.tokens
  OBVIOUS
<1> DEFINE v == [techniques |-> techniques, fields |-> fields, refs |-> refs,
                 says |-> analysis.sent, confidence |-> confidence]
           V == Checked(v, ps)
           G == Grounding(V, d)
<1>4. /\ analysis'.of = d /\ analysis'.prompt = text /\ analysis'.verdict = V /\ analysis'.validation = G
      /\ analysis'.honest = (Invention \notin fields \cup refs)
      /\ analysis'.cited.fields = Cardinality(fields \ {Invention})
      /\ analysis'.cited.refs = Cardinality(refs \ {Invention})
      /\ analysis'.said = confidence
  <2> HIDE DEF V, G
  <2>1. V = Checked(v, analysis.tokens) /\ G = Grounding(Checked(v, analysis.tokens), analysis.of)
    BY <1>3, Zenon DEF V, G
  <2> QED
    BY <1>2, <1>3, <2>1
<1>5. /\ V.techniques = ReadBack(techniques, ps) /\ V.fields = ReadBack(fields, ps) /\ V.refs = ReadBack(refs, ps)
      /\ V.says = Restore(analysis.sent, ps) /\ V.confidence = confidence
  BY DEF Checked, Restored, ReadBack
<1>6. /\ G.rejected = {Normalised(t) : t \in V.techniques} \ ToSet(Techniques)
      /\ G.fields = V.fields \cap Keys(d) /\ G.refs = V.refs \cap Refs(d)
      /\ G.confidence = IF (V.fields \ Keys(d)) \cup (V.refs \ Refs(d)) # {} /\ V.confidence > ConfidenceCap
                          THEN ConfidenceCap ELSE V.confidence
  <2> HIDE DEF V
  <2> QED
    BY DEF Grounding
<1> SUFFICES ASSUME ~Clash(d), \A t \in Keys(d) \cup Refs(d) \cup {text} : ~Forged(t)
             PROVE  /\ V.says = text
                    /\ Cardinality(G.fields) = Cardinality(fields \ {Invention})
                    /\ Cardinality(G.refs) = Cardinality(refs \ {Invention})
                    /\ G.rejected \subseteq {Invention}
                    /\ G.confidence = IF Invention \notin fields \cup refs \/ confidence < ConfidenceCap
                                        THEN confidence ELSE ConfidenceCap
  <2> HIDE DEF V, G
  <2> QED
    BY <1>4 DEF AnswerStands
<1>7. d \in Dossiers /\ text \in Texts
  BY <1>1, <1>3 DEF AskedInv, Asked
<1>8. GivenTokens(ps) /\ Replaced(text, ps) = analysis.sent
  BY <1>1, <1>3, AskedTokens
<1>9. V.says = text
  <2> HIDE DEF V
  <2>1. Restore(Replaced(text, ps), ps) = text
    BY <1>7, <1>8, Restores
  <2> QED
    BY <1>5, <1>8, <2>1
<1>10. /\ IsFiniteSet(Keys(d)) /\ Keys(d) \subseteq Texts /\ Invention \notin Keys(d)
       /\ IsFiniteSet(Refs(d)) /\ Refs(d) \subseteq Texts /\ Invention \notin Refs(d)
  BY <1>7, DossierIs, ReasonerAssumption
<1>11. ASSUME NEW K, K = Keys(d) \/ K = Refs(d), NEW F \in Citing(Legible(K))
       PROVE  /\ Cardinality(ReadBack(F, ps) \cap K) = Cardinality(F \ {Invention})
              /\ ReadBack(F, ps) \ K # {} <=> Invention \in F
  <2>1. PICK L : L = Legible(K)
    OBVIOUS
  <2>2. \A x \in L : \E t \in K : x = Replaced(t, ps)
    BY <1>3, <2>1 DEF Legible, AsSent
  <2>3. F \in Citing(L)
    BY <1>11, <2>1
  <2>4. IsFiniteSet(K) /\ K \subseteq Texts /\ Invention \notin K /\ \A t \in K : ~Forged(t)
    BY <1>10, <1>11
  <2> HIDE DEF V, v, G
  <2> QED
    BY <1>8, <2>2, <2>3, <2>4, CitedIs
<1>12. /\ Cardinality(ReadBack(fields, ps) \cap Keys(d)) = Cardinality(fields \ {Invention})
       /\ ReadBack(fields, ps) \ Keys(d) # {} <=> Invention \in fields
  BY <1>3, <1>11
<1>13. /\ Cardinality(ReadBack(refs, ps) \cap Refs(d)) = Cardinality(refs \ {Invention})
       /\ ReadBack(refs, ps) \ Refs(d) # {} <=> Invention \in refs
  BY <1>3, <1>11
<1>14. \A t \in ReadBack(techniques, ps) : Normalised(t) \in ToSet(Techniques) \cup {Invention}
  <2>1. PICK L : L = {AsSent(t) : t \in Spelled}
    OBVIOUS
  <2>2. \A x \in L : \E t \in Spelled : x = Replaced(t, ps)
    BY <1>3, <2>1 DEF AsSent
  <2>3. techniques \in Citing(L)
    BY <2>1
  <2>4. PICK S : S = Spelled
    OBVIOUS
  <2>5. S \subseteq DOMAIN Canonical
    BY <2>4 DEF Spelled
  <2> HIDE DEF V, v, G
  <2> QED
    BY <1>8, <2>2, <2>3, <2>4, <2>5, TechniquesRead
<1>15. Cardinality(G.fields) = Cardinality(fields \ {Invention})
  <2> HIDE DEF V, G
  <2> QED
    BY <1>5, <1>6, <1>12
<1>16. Cardinality(G.refs) = Cardinality(refs \ {Invention})
  <2> HIDE DEF V, G
  <2> QED
    BY <1>5, <1>6, <1>13
<1>17. G.rejected \subseteq {Invention}
  <2> HIDE DEF V, G
  <2> QED
    BY <1>5, <1>6, <1>14
<1>18. G.confidence = IF Invention \notin fields \cup refs \/ confidence < ConfidenceCap
                        THEN confidence ELSE ConfidenceCap
  <2> HIDE DEF V, G
  <2>1. (V.fields \ Keys(d)) \cup (V.refs \ Refs(d)) # {} <=> Invention \in fields \cup refs
    BY <1>5, <1>12, <1>13
  <2>2. confidence = 30 \/ confidence = 90
    OBVIOUS
  <2> QED
    BY <1>5, <1>6, <2>1, <2>2 DEF ConfidenceCap
<1> QED
  BY <1>9, <1>15, <1>16, <1>17, <1>18

LEMMA AskAsks ==
  ASSUME AskedInv, Ask
  PROVE  AskedInv'
<1>1. PICK caps \in [DOMAIN dossier -> Caps], cut \in Cuts :
       LET prompt == Prompt(Evidence(dossier, caps, cut))
           hides == ai.provider # "local" /\ redacting
           s == IF hides THEN Redact(prompt, dossier) ELSE [text |-> prompt, tokens |-> <<>>]
       IN analysis' = [at |-> "asked", of |-> dossier, hides |-> hides, prompt |-> prompt,
                        sent |-> s.text, tokens |-> s.tokens]
  BY DEF Ask
<1>2. dossier \in Dossiers /\ dossier' = dossier
  BY DEF Ask, AskedInv
<1>3. PICK prompt \in Texts : prompt = Prompt(Evidence(dossier, caps, cut))
  BY <1>2, PromptText
<1>4. PICK hides : hides = (ai.provider # "local" /\ redacting)
  OBVIOUS
<1>5. PICK s : s = IF hides THEN Redact(prompt, dossier) ELSE [text |-> prompt, tokens |-> <<>>]
  OBVIOUS
<1>6. analysis' = [at |-> "asked", of |-> dossier, hides |-> hides, prompt |-> prompt,
                    sent |-> s.text, tokens |-> s.tokens]
  BY <1>1, <1>3, <1>4, <1>5
<1>7. /\ hides => s = Redact(prompt, dossier)
      /\ ~hides => s.text = prompt /\ s.tokens = <<>>
  BY <1>5
<1>8. Asked(analysis')
  BY <1>2, <1>6, <1>7 DEF Asked
<1> QED
  BY <1>2, <1>8 DEF AskedInv

----------------------------------------------------------------------------
\* Every state.

AnalysisInv == AskedInv /\ AnswerStands

LEMMA AnalysisInvInductive ==
  /\ ReasonerInit => AnalysisInv
  /\ AnalysisInv /\ [ReasonerNext]_reasonerVars => AnalysisInv'
<1>1. ReasonerInit => AnalysisInv
  BY DEF ReasonerInit, AnalysisInv, AskedInv, AnswerStands, NoAnalysis
<1>2. ASSUME AnalysisInv, Ask PROVE AnalysisInv'
  <2>1. AskedInv'
    BY <1>2, AskAsks DEF AnalysisInv
  <2>2. analysis'.at = "asked"
    BY <1>2 DEF Ask
  <2>3. AnswerStands'
    BY <2>2 DEF AnswerStands
  <2> QED
    BY <2>1, <2>3 DEF AnalysisInv
<1>3. ASSUME AnalysisInv, Answer PROVE AnalysisInv'
  <2>1. AnswerStands'
    BY <1>3, AnswerReads DEF AnalysisInv
  <2>2. analysis'.at = "answered" /\ dossier' = dossier
    BY <1>3 DEF Answer
  <2> QED
    BY <1>3, <2>1, <2>2 DEF AnalysisInv, AskedInv
<1>4. ASSUME AnalysisInv, End PROVE AnalysisInv'
  <2>1. analysis'.at = "idle" /\ dossier' = dossier
    BY <1>4 DEF End, NoAnalysis
  <2> QED
    BY <1>4, <2>1 DEF AnalysisInv, AskedInv, AnswerStands
<1>5. ASSUME AnalysisInv, SwitchAi PROVE AnalysisInv'
  <2>1. analysis' = analysis /\ dossier' = dossier /\ analysis.at # "answered"
    BY <1>5 DEF SwitchAi
  <2> QED
    BY <1>5, <2>1 DEF AnalysisInv, AskedInv, AnswerStands
<1>6. ASSUME AnalysisInv, ReviseEvidence PROVE AnalysisInv'
  <2>1. analysis' = analysis /\ dossier' \in Dossiers /\ analysis.at # "answered"
    BY <1>6 DEF ReviseEvidence
  <2> QED
    BY <1>6, <2>1 DEF AnalysisInv, AskedInv, AnswerStands
<1>7. ASSUME AnalysisInv, UNCHANGED reasonerVars PROVE AnalysisInv'
  <2>1. analysis' = analysis /\ dossier' = dossier
    BY <1>7 DEF reasonerVars
  <2>2. AskedInv'
    BY <1>7, <2>1 DEF AnalysisInv, AskedInv
  <2>3. AnswerStands'
    BY <1>7, <2>1 DEF AnalysisInv, AnswerStands
  <2> QED
    BY <2>2, <2>3 DEF AnalysisInv
<1> QED
  BY <1>1, <1>2, <1>3, <1>4, <1>5, <1>6, <1>7 DEF ReasonerNext

\* In every state of an analysis, whatever texts are made of: what is sent shows
\* no known value, and one token for each (redactor.py, redact).
THEOREM KnownValuesHidden == ReasonerSpec => []SentInTokens
<1>1. AnalysisInv => SentInTokens
  BY AskedHides DEF AnalysisInv
<1> QED
  BY <1>1, AnalysisInvInductive, PTL DEF ReasonerSpec

\* Whatever the model cites of what it was sent, its verdict is read back in the
\* words of the prompt and of the evidence asked about (reasoner.py, triage).
THEOREM AnswersStand == ReasonerSpec => []AnswerStands
<1>1. AnalysisInv => AnswerStands
  BY DEF AnalysisInv
<1> QED
  BY <1>1, AnalysisInvInductive, PTL DEF ReasonerSpec

\* A text that shows nothing like a token, redacted for any evidence without a
\* clash and restored with the tokens given, is the text that it was.
THEOREM RestoreUndoesRedact ==
  ASSUME NEW d \in Dossiers, ~Clash(d), NEW text \in Texts, ~Forged(text)
  PROVE  LET s == Redact(text, d) IN Restore(s.text, s.tokens) = text
<1>1. PICK s : s = Redact(text, d)
  OBVIOUS
<1>2. Redacting(s, text)
  BY <1>1, RedactIs
<1>3. GivenTokens(s.tokens) /\ s.text = Replaced(text, s.tokens)
  BY <1>2, RedactingGives
<1> QED
  BY <1>1, <1>3, Restores
=============================================================================
