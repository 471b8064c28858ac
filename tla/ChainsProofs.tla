---------------------------- MODULE ChainsProofs ----------------------------
(***************************************************************************)
(* Proofs about Chains, for every set of alerts, history and window.       *)
(*                                                                         *)
(* What resolution does to a resolver comes first: it gives an alert       *)
(* entities that there are.  Then the invariant of the correlator, Steady: *)
(* chains are what is connected, ids are of one anchor each, neighbours    *)
(* are linked.  The operators of Chains are followed through it in the     *)
(* order they call each other, an evaluation being a fold over what is     *)
(* due; in between, while alerts are placed and not yet grouped, the       *)
(* invariant allows for those alerts (Grouped with a set T).  Last, the    *)
(* invariant of the program and the theorems.                              *)
(***************************************************************************)
EXTENDS Chains, FiniteSetTheorems, WellFoundedInduction, TLAPS

\* A set of numbers that is not empty has a least.
LEMMA LeastNumber ==
  ASSUME NEW S \in SUBSET Nat, S # {}
  PROVE  \E n \in S : \A m \in S : n <= m
<1>1. IsWellFoundedOn(OpToRel(<, Nat), Nat)
  BY NatLessThanWellFounded
<1>2. PICK n \in S : \A m \in S : <<m, n>> \notin OpToRel(<, Nat)
  BY <1>1, WFMin
<1>3. \A m \in Nat : m < n => <<m, n>> \in OpToRel(<, Nat)
  BY DEF OpToRel
<1> QED
  <2>1. \A m \in S : ~(m < n) /\ m \in Nat /\ n \in Nat
    BY <1>2, <1>3
  <2> QED
    BY <2>1

\* c comes first in S by three numbers.
FirstBy(S, f, g, h, c) ==
  \A d \in S : \/ f[c] < f[d]
               \/ f[c] = f[d] /\ g[c] < g[d]
               \/ f[c] = f[d] /\ g[c] = g[d] /\ h[c] <= h[d]

\* Some element of a set that is not empty comes first by three numbers.
LEMMA LeastByThree ==
  ASSUME NEW S, S # {}, NEW f \in [S -> Nat], NEW g \in [S -> Nat], NEW h \in [S -> Nat]
  PROVE  \E c \in S : FirstBy(S, f, g, h, c)
<1> DEFINE F == {f[c] : c \in S}
<1>1. PICK p \in F : \A q \in F : p <= q
  <2>1. F \in SUBSET Nat /\ F # {}
    OBVIOUS
  <2> QED
    BY <2>1, LeastNumber
<1> DEFINE G == {g[c] : c \in {x \in S : f[x] = p}}
<1>2. PICK q \in G : \A r \in G : q <= r
  <2>1. G \in SUBSET Nat /\ G # {}
    BY <1>1
  <2> QED
    BY <2>1, LeastNumber
<1> DEFINE H == {h[c] : c \in {x \in S : f[x] = p /\ g[x] = q}}
<1>3. PICK r \in H : \A s \in H : r <= s
  <2>1. H \in SUBSET Nat /\ H # {}
    BY <1>2
  <2> QED
    BY <2>1, LeastNumber
<1>4. PICK c \in S : f[c] = p /\ g[c] = q /\ h[c] = r
  BY <1>3
<1>5. ASSUME NEW d \in S
      PROVE  \/ f[c] < f[d]
             \/ f[c] = f[d] /\ g[c] < g[d]
             \/ f[c] = f[d] /\ g[c] = g[d] /\ h[c] <= h[d]
  <2>1. f[c] <= f[d] /\ f[c] \in Nat /\ f[d] \in Nat
    BY <1>1, <1>4
  <2>2. f[d] = p => g[c] <= g[d] /\ g[c] \in Nat /\ g[d] \in Nat
    BY <1>2, <1>4
  <2>3. f[d] = p /\ g[d] = q => h[c] <= h[d]
    BY <1>3, <1>4
  <2> QED
    BY <1>4, <2>1, <2>2, <2>3
<1> QED
  BY <1>4, <1>5 DEF FirstBy

----------------------------------------------------------------------------
\* Entities: the resolver.

\* The numbers given out, and a resolver's parts.
Numbers(R) == 1 .. R.next - 1
Parts(R) ==
  [next   : Nat \ {0},
   entity : [Numbers(R) -> [first : Nat, ids : SUBSET Ids]],
   alive  : SUBSET Numbers(R),
   index  : [Ids -> Numbers(R) \cup {0}],
   leases : [Ips -> SUBSET (Nat \X Numbers(R))]]

\* An entity is found by the names of hosts or by those of users, never by
\* both, and no user holds an address.
KindsApart(R) ==
  /\ \A j \in UserIds : R.index[j] # 0 =>
       /\ \A i \in HostIds : R.index[i] # R.index[j]
       /\ \A ip \in Ips : \A l \in R.leases[ip] : l[2] # R.index[j]
       /\ R.entity[R.index[j]].ids \cap HostIds = {}
  /\ \A i \in HostIds : R.index[i] # 0 => R.entity[R.index[i]].ids \cap UserIds = {}

\* A resolver as it should be.
Resolving(R) == R \in Parts(R) /\ KindsApart(R)

\* Two resolvers that find the same: the evidence of an entity apart.
Alike(R, S) == R.alive = S.alive /\ R.index = S.index /\ R.leases = S.leases

\* What there is of a resolver stays when it makes an entity.
LEMMA NewEntityMade ==
  ASSUME NEW R, Resolving(R), NEW t \in Nat, NEW ids \in SUBSET Ips,
         NEW N, N = NewEntity(R, t, ids)
  PROVE  /\ N \in [uid : {R.next}, res : {N.res}]
         /\ Resolving(N.res) /\ N.res.next = R.next + 1
         /\ N.res.alive = R.alive \cup {R.next}
         /\ N.res.index = R.index /\ N.res.leases = R.leases
         /\ N.res.entity[R.next].ids = ids
<1>1. N.uid = R.next /\ N \in [uid : {R.next}, res : {N.res}]
  BY DEF NewEntity
<1> DEFINE new == With(R.entity, R.next, [first |-> t, ids |-> ids])
<1>2. N.res = [R EXCEPT !.next = R.next + 1, !.alive = R.alive \cup {R.next}, !.entity = new]
  BY DEF NewEntity
<1>3. new \in [1 .. R.next -> [first : Nat, ids : SUBSET Ids]]
  BY DEF With, Resolving, Parts, Numbers, Ids
<1>4. new[R.next].ids = ids /\ \A e \in Numbers(R) : new[e] = R.entity[e]
  BY DEF With, Resolving, Parts, Numbers
<1> HIDE DEF new
<1>5. /\ N.res.next = R.next + 1 /\ N.res.alive = R.alive \cup {R.next} /\ N.res.entity = new
      /\ N.res.index = R.index /\ N.res.leases = R.leases
      /\ N.res \in [next : {R.next + 1}, entity : {new}, alive : {R.alive \cup {R.next}},
                    index : {R.index}, leases : {R.leases}]
  BY <1>2 DEF Resolving, Parts
<1>6. R.next \in Nat \ {0} /\ Numbers(N.res) = 1 .. R.next /\ Numbers(R) \subseteq Numbers(N.res)
  BY <1>5 DEF Resolving, Parts, Numbers
<1>7. N.res \in Parts(N.res)
  <2>1. R.alive \cup {R.next} \subseteq 1 .. R.next
    BY <1>6 DEF Resolving, Parts, Numbers
  <2>2. R.index \in [Ids -> (1 .. R.next) \cup {0}]
    BY <1>6 DEF Resolving, Parts
  <2>3. R.leases \in [Ips -> SUBSET (Nat \X (1 .. R.next))]
    BY <1>6 DEF Resolving, Parts
  <2> QED
    BY <1>3, <1>5, <1>6, <2>1, <2>2, <2>3 DEF Parts
<1>8. KindsApart(N.res)
  <2>1. \A i \in Ids : R.index[i] # 0 => new[R.index[i]] = R.entity[R.index[i]]
    BY <1>4 DEF Resolving, Parts
  <2> QED
    BY <1>5, <2>1 DEF Resolving, KindsApart, Ids
<1> QED
  BY <1>1, <1>4, <1>5, <1>7, <1>8 DEF Resolving

\* The oldest of some entities is one of them.
LEMMA OldestIn ==
  ASSUME NEW R, Resolving(R), NEW es \in SUBSET Numbers(R), es # {}
  PROVE  Oldest(R, es) \in es
<1> DEFINE f == [e \in es |-> R.entity[e].first]
           g == [e \in es |-> e]
           h == [e \in es |-> 0]
<1>1. f \in [es -> Nat] /\ g \in [es -> Nat] /\ h \in [es -> Nat]
  BY DEF Resolving, Parts, Numbers
<1>2. PICK c \in es : FirstBy(es, f, g, h, c)
  <2> HIDE DEF f, g, h
  <2> QED
    BY <1>1, LeastByThree
<1>3. \A d \in es : Older(R, c, d)
  <2>1. \A d \in es : /\ f[d] = R.entity[d].first /\ g[d] = d /\ f[d] \in Nat /\ g[d] \in Nat
                      /\ g[d] \in es
    BY <1>1 DEF Numbers
  <2> HIDE DEF f, g, h
  <2>2. c \in Nat /\ \A d \in es : d \in Nat
    BY DEF Numbers
  <2> QED
    BY <1>2, <2>1, <2>2 DEF Older, FirstBy
<1> QED
  BY <1>3 DEF Oldest

\* An entity that may have the identifiers: they are of its kind.
Fits(R, u, ids) ==
  \/ /\ ids \subseteq UserIds /\ R.entity[u].ids \cap HostIds = {}
     /\ \A i \in HostIds : R.index[i] # u
     /\ \A ip \in Ips : \A l \in R.leases[ip] : l[2] # u
  \/ /\ ids \subseteq HostIds /\ R.entity[u].ids \cap UserIds = {}
     /\ \A j \in UserIds : R.index[j] # u

\* _resolve_durable: the entity found takes the identifiers, the resolver keeps the rest.
LEMMA Claimed ==
  ASSUME NEW R, Resolving(R), NEW u \in Numbers(R), NEW f \in [uid : {u}, res : {R}],
         NEW ids, Fits(R, u, ids), NEW t \in Nat, NEW C, C = Claim(f, ids, t)
  PROVE  /\ C \in [uid : {u}, res : {C.res}]
         /\ Resolving(C.res) /\ C.res.next = R.next
         /\ C.res.alive = R.alive /\ C.res.leases = R.leases
         /\ C.res.index = [i \in Ids |-> IF i \in ids THEN u ELSE R.index[i]]
<1> DEFINE index == [i \in Ids |-> IF i \in ids THEN u ELSE R.index[i]]
           mine  == [first |-> IF t < R.entity[u].first THEN t ELSE R.entity[u].first,
                     ids |-> R.entity[u].ids \cup ids]
           named == [R.entity EXCEPT ![u] = mine]
<1>1. u \in Nat /\ R \in Parts(R) /\ u # 0
  BY DEF Resolving, Numbers
<1>2. /\ f.uid = u /\ f.res = R /\ f \in [uid : {u}, res : {R}]
      /\ R.entity[u] \in [first : Nat, ids : SUBSET Ids]
  BY <1>1 DEF Parts
<1>3. C.uid = u /\ C \in [uid : {u}, res : {C.res}]
  BY DEF Claim
<1>4. C.res = [R EXCEPT !.entity = named, !.index = index]
  <2> DEFINE A == [f EXCEPT !.res.entity[u] = mine]
             D == [A EXCEPT !.res.index = index]
  <2>1. A = [f EXCEPT !.res = [R EXCEPT !.entity = named]]
    BY <1>1, <1>2 DEF Parts
  <2>2. A.uid = u /\ A.res = [R EXCEPT !.entity = named] /\ A \in [uid : {u}, res : {A.res}]
    BY <1>2, <2>1
  <2>3. C = D
    BY <1>2 DEF Claim
  <2> HIDE DEF A, named, mine
  <2>4. D.res = [R EXCEPT !.entity = named, !.index = index]
    BY <1>1, <2>2 DEF Parts
  <2> QED
    BY <2>3, <2>4
<1>5. mine.ids = R.entity[u].ids \cup ids /\ mine \in [first : Nat, ids : SUBSET Ids]
  BY <1>2 DEF Fits, Ids
<1>6. /\ named \in [Numbers(R) -> [first : Nat, ids : SUBSET Ids]] /\ named[u] = mine
      /\ \A e \in Numbers(R) \ {u} : named[e] = R.entity[e]
  BY <1>1, <1>5 DEF Parts
<1>7. index \in [Ids -> Numbers(R) \cup {0}]
  BY <1>1 DEF Parts
<1> HIDE DEF mine, named
<1>8. \A i \in Ids : index[i] = IF i \in ids THEN u ELSE R.index[i]
  OBVIOUS
<1> HIDE DEF index
<1>9. /\ C.res.next = R.next /\ C.res.alive = R.alive /\ C.res.entity = named
      /\ C.res.index = index /\ C.res.leases = R.leases
      /\ C.res \in [next : {R.next}, entity : {named}, alive : {R.alive},
                    index : {index}, leases : {R.leases}]
  BY <1>1, <1>4 DEF Parts
<1>10. C.res \in Parts(C.res)
  <2>1. Numbers(C.res) = Numbers(R)
    BY <1>9 DEF Numbers
  <2> QED
    BY <1>1, <1>6, <1>7, <1>9, <2>1 DEF Parts
<1>11. KindsApart(C.res)
  <2>1. HostIds \cap UserIds = {} /\ HostIds \subseteq Ids /\ UserIds \subseteq Ids
    BY EntitiesAssumption DEF Ids
  <2>2. \A i \in Ids : R.index[i] # 0 => R.index[i] \in Numbers(R)
    BY <1>1 DEF Parts
  <2>3. ASSUME NEW j \in UserIds, index[j] # 0
        PROVE  /\ \A i \in HostIds : index[i] # index[j]
               /\ \A ip \in Ips : \A l \in R.leases[ip] : l[2] # index[j]
               /\ named[index[j]].ids \cap HostIds = {}
    BY <1>5, <1>6, <1>8, <2>1, <2>2, <2>3 DEF Fits, Resolving, KindsApart
  <2>4. ASSUME NEW i \in HostIds, index[i] # 0
        PROVE  named[index[i]].ids \cap UserIds = {}
    BY <1>5, <1>6, <1>8, <2>1, <2>2, <2>4 DEF Fits, Resolving, KindsApart
  <2> QED
    BY <1>9, <2>3, <2>4 DEF KindsApart
<1> QED
  BY <1>3, <1>9, <1>10, <1>11 DEF Resolving, index

\* Identifiers that are resolved together are all of hosts or all of users.
OneKind(ids) == ids \subseteq HostIds \/ ids \subseteq UserIds

\* The kinds are apart when they are in the tables of the resolver.
LEMMA KindsApartBy ==
  ASSUME NEW S, NEW index, NEW leases, NEW entity,
         S.index = index, S.leases = leases, S.entity = entity,
         \A j \in UserIds : index[j] # 0 =>
           /\ \A i \in HostIds : index[i] # index[j]
           /\ \A ip \in Ips : \A l \in leases[ip] : l[2] # index[j]
           /\ entity[index[j]].ids \cap HostIds = {},
         \A i \in HostIds : index[i] # 0 => entity[index[i]].ids \cap UserIds = {}
  PROVE  KindsApart(S)
  BY DEF KindsApart

\* Entities found by identifiers of one kind become one, which may have them.
LEMMA MergeMade ==
  ASSUME NEW R, Resolving(R), NEW ids, OneKind(ids),
         NEW es, es = {R.index[i] : i \in ids} \cap R.alive, es # {},
         NEW N, N = Merge(R, es)
  PROVE  /\ N \in [uid : es, res : {N.res}]
         /\ Resolving(N.res) /\ N.res.next = R.next
         /\ N.res.alive = R.alive \ (es \ {N.uid})
         /\ Fits(N.res, N.uid, ids)
         /\ ids \subseteq UserIds =>
              N.res.leases = R.leases /\ \A i \in HostIds : N.res.index[i] = R.index[i]
         /\ es = {N.uid} => Alike(N.res, R)
<1> DEFINE k == Oldest(R, es)
           gone == es \ {k}
           them == UNION {R.entity[e].ids : e \in gone}
           Now(e) == IF e \in gone THEN k ELSE e
           named == [R.entity EXCEPT ![k].ids = @ \cup them]
           index == [i \in Ids |-> IF i \in them \ Ips THEN k ELSE R.index[i]]
           leases == [i \in Ips |-> {<<l[1], Now(l[2])>> : l \in R.leases[i]}]
<1>1. R \in Parts(R) /\ es \subseteq Numbers(R)
  BY DEF Resolving, Parts
<1>2. k \in es
  BY <1>1, OldestIn
<1> HIDE DEF k
<1>3. k \in Numbers(R) /\ k # 0 /\ \A e \in es : e \in Numbers(R) /\ e # 0
  BY <1>1, <1>2 DEF Numbers
<1>4. N = [uid |-> k, res |-> Absorb(R, k, gone, them)]
  BY DEF Merge, Into, k
<1>5. N.uid = k /\ N.res = Absorb(R, k, gone, them) /\ N \in [uid : {k}, res : {N.res}]
  BY <1>4
<1>6. N.res = [R EXCEPT !.alive = @ \ gone, !.entity = named, !.index = index, !.leases = leases]
  BY <1>1, <1>5 DEF Absorb, Parts
<1>7. /\ named \in [Numbers(R) -> [first : Nat, ids : SUBSET Ids]]
      /\ named[k].ids = R.entity[k].ids \cup them
      /\ \A e \in Numbers(R) \ {k} : named[e] = R.entity[e]
  BY <1>1, <1>3 DEF Parts
<1>8. index \in [Ids -> Numbers(R) \cup {0}] /\ \A i \in Ids : index[i] = IF i \in them \ Ips THEN k ELSE R.index[i]
  BY <1>1, <1>3 DEF Parts
<1>9. leases \in [Ips -> SUBSET (Nat \X Numbers(R))]
  BY <1>1, <1>3 DEF Parts
<1>10. ASSUME NEW ip \in Ips, NEW l \in leases[ip]
       PROVE  \E m \in R.leases[ip] : l[2] = m[2] \/ l[2] = k
  BY <1>10
<1>11. ASSUME \A ip \in Ips : \A l \in R.leases[ip] : l[2] \notin gone
       PROVE  leases = R.leases
  <2>1. ASSUME NEW ip \in Ips PROVE leases[ip] = R.leases[ip]
    <3>1. \A l \in R.leases[ip] : <<l[1], Now(l[2])>> = l
      BY <1>1, <1>11 DEF Parts
    <3> QED
      BY <3>1
  <2> QED
    BY <1>1, <1>9, <2>1 DEF Parts
<1> HIDE DEF named, index, leases
<1>12. /\ N.res.next = R.next /\ N.res.alive = R.alive \ gone /\ N.res.entity = named
       /\ N.res.index = index /\ N.res.leases = leases
  BY <1>1, <1>6 DEF Parts
<1>20. N.res \in [next : {R.next}, entity : {named}, alive : {R.alive \ gone},
                      index : {index}, leases : {leases}]
  BY <1>1, <1>6 DEF Parts
<1>13. N.res \in Parts(N.res)
  <2>1. Numbers(N.res) = Numbers(R)
    BY <1>12 DEF Numbers
  <2> QED
    BY <1>1, <1>7, <1>8, <1>9, <1>12, <1>20, <2>1 DEF Parts
<1>14. \A e \in es : \E i \in ids : R.index[i] = e
  OBVIOUS
<1>15. /\ HostIds \cap UserIds = {} /\ (HostIds \cup UserIds) \cap Ips = {}
       /\ HostIds \subseteq Ids /\ UserIds \subseteq Ids
  BY EntitiesAssumption DEF Ids
<1>16. ASSUME ids \subseteq UserIds
       PROVE  /\ KindsApart(N.res) /\ Fits(N.res, k, ids)
              /\ N.res.leases = R.leases /\ \A i \in HostIds : N.res.index[i] = R.index[i]
  <2>1. \A e \in es : /\ \A i \in HostIds : R.index[i] # e
                      /\ \A ip \in Ips : \A l \in R.leases[ip] : l[2] # e
                      /\ R.entity[e].ids \cap HostIds = {}
    BY <1>3, <1>14, <1>16 DEF Resolving, KindsApart
  <2>2. them \cap HostIds = {}
    BY <2>1
  <2>3. leases = R.leases
    BY <1>11, <2>1
  <2>4. \A i \in HostIds : index[i] = R.index[i]
    BY <1>8, <1>15, <2>2
  <2>5. ASSUME NEW j \in UserIds, index[j] # 0
        PROVE  /\ \A i \in HostIds : index[i] # index[j]
               /\ \A ip \in Ips : \A l \in leases[ip] : l[2] # index[j]
               /\ named[index[j]].ids \cap HostIds = {}
    <3>1. CASE index[j] = k
      BY <1>2, <1>7, <2>1, <2>2, <2>3, <2>4, <3>1
    <3>2. CASE index[j] # k
      <4>1. index[j] = R.index[j] /\ R.index[j] \in Numbers(R) \ {k}
        BY <1>1, <1>8, <1>15, <2>5, <3>2 DEF Parts
      <4> QED
        BY <1>7, <2>3, <2>4, <2>5, <4>1 DEF Resolving, KindsApart
    <3> QED
      BY <3>1, <3>2
  <2>6. ASSUME NEW i \in HostIds, index[i] # 0 PROVE named[index[i]].ids \cap UserIds = {}
    <3>1. index[i] = R.index[i] /\ R.index[i] \in Numbers(R) \ {k}
      BY <1>1, <1>2, <1>15, <2>1, <2>4, <2>6 DEF Parts
    <3> QED
      BY <1>7, <2>6, <3>1 DEF Resolving, KindsApart
  <2>7. KindsApart(N.res)
    <3>1. \A j \in UserIds : index[j] # 0 =>
            /\ \A i \in HostIds : index[i] # index[j]
            /\ \A ip \in Ips : \A l \in leases[ip] : l[2] # index[j]
            /\ named[index[j]].ids \cap HostIds = {}
      BY <2>5
    <3>2. \A i \in HostIds : index[i] # 0 => named[index[i]].ids \cap UserIds = {}
      BY <2>6
    <3> QED
      BY <1>12, <3>1, <3>2, KindsApartBy
  <2>8. /\ named[k].ids \cap HostIds = {}
        /\ \A i \in HostIds : index[i] # k
        /\ \A ip \in Ips : \A l \in leases[ip] : l[2] # k
    BY <1>2, <1>7, <2>1, <2>2, <2>3, <2>4
  <2>9. Fits(N.res, k, ids)
    BY <1>12, <1>16, <2>8 DEF Fits
  <2> QED
    BY <1>12, <2>3, <2>4, <2>7, <2>9
<1>17. ASSUME ids \subseteq HostIds
       PROVE  KindsApart(N.res) /\ Fits(N.res, k, ids) /\ ~(ids \subseteq UserIds)
  <2>1. \A e \in es : /\ \A j \in UserIds : R.index[j] # e
                      /\ R.entity[e].ids \cap UserIds = {}
    BY <1>3, <1>14, <1>15, <1>17 DEF Resolving, KindsApart
  <2>2. them \cap UserIds = {}
    BY <2>1
  <2>3. \A j \in UserIds : index[j] = R.index[j]
    BY <1>8, <1>15, <2>2
  <2>4. ASSUME NEW j \in UserIds, index[j] # 0
        PROVE  /\ \A i \in HostIds : index[i] # index[j]
               /\ \A ip \in Ips : \A l \in leases[ip] : l[2] # index[j]
               /\ named[index[j]].ids \cap HostIds = {}
    <3>1. index[j] = R.index[j] /\ R.index[j] \in Numbers(R) \ {k}
      BY <1>1, <1>2, <1>15, <2>1, <2>3, <2>4 DEF Parts
    <3>2. \A i \in HostIds : index[i] # index[j]
      BY <1>8, <1>15, <2>4, <3>1 DEF Resolving, KindsApart
    <3>3. \A ip \in Ips : \A l \in leases[ip] : l[2] # index[j]
      BY <1>10, <2>4, <3>1 DEF Resolving, KindsApart
    <3> QED
      BY <1>7, <2>4, <3>1, <3>2, <3>3 DEF Resolving, KindsApart
  <2>5. ASSUME NEW i \in HostIds, index[i] # 0 PROVE named[index[i]].ids \cap UserIds = {}
    <3>1. CASE index[i] = k
      BY <1>2, <1>7, <2>1, <2>2, <3>1
    <3>2. CASE index[i] # k
      <4>1. index[i] = R.index[i] /\ R.index[i] \in Numbers(R) \ {k}
        BY <1>1, <1>8, <1>15, <2>5, <3>2 DEF Parts
      <4> QED
        BY <1>7, <2>5, <4>1 DEF Resolving, KindsApart
    <3> QED
      BY <3>1, <3>2
  <2>6. KindsApart(N.res)
    <3>1. \A j \in UserIds : index[j] # 0 =>
            /\ \A i \in HostIds : index[i] # index[j]
            /\ \A ip \in Ips : \A l \in leases[ip] : l[2] # index[j]
            /\ named[index[j]].ids \cap HostIds = {}
      BY <2>4
    <3>2. \A i \in HostIds : index[i] # 0 => named[index[i]].ids \cap UserIds = {}
      BY <2>5
    <3> QED
      BY <1>12, <3>1, <3>2, KindsApartBy
  <2>7. named[k].ids \cap UserIds = {} /\ \A j \in UserIds : index[j] # k
    BY <1>2, <1>7, <2>1, <2>2, <2>3
  <2>9. Fits(N.res, k, ids)
    BY <1>12, <1>17, <2>7 DEF Fits
  <2>8. ASSUME ids \subseteq UserIds PROVE FALSE
    BY <1>2, <1>14, <1>15, <1>17, <2>8
  <2> QED
    BY <2>6, <2>8, <2>9
<1>18. ASSUME es = {k} PROVE Alike(N.res, R)
  <2>1. gone = {} /\ them = {}
    BY <1>18
  <2>2. index = R.index
    BY <1>1, <1>8, <2>1 DEF Parts
  <2>3. leases = R.leases
    BY <1>11, <2>1
  <2> QED
    BY <1>12, <2>1, <2>2, <2>3 DEF Alike
<1>19. KindsApart(N.res) /\ Fits(N.res, k, ids)
  BY <1>16, <1>17 DEF OneKind
<1> QED
  BY <1>2, <1>5, <1>12, <1>13, <1>16, <1>18, <1>19 DEF Resolving

\* Identifiers that occur together find or make one living entity; those of
\* users change nothing of hosts and of addresses.
LEMMA DurableMade ==
  ASSUME NEW R, Resolving(R), NEW ids, OneKind(ids), ids # {}, NEW t \in Nat,
         NEW D, D = Durable(R, ids, t)
  PROVE  /\ D \in [uid : D.res.alive, res : {D.res}]
         /\ Resolving(D.res) /\ R.next <= D.res.next
         /\ \A i \in ids : D.res.index[i] = D.uid
         /\ ids \subseteq UserIds =>
              /\ D.res.leases = R.leases
              /\ \A i \in HostIds : /\ D.res.index[i] = R.index[i]
                                    /\ R.index[i] \in R.alive => R.index[i] \in D.res.alive
         /\ \A u \in R.alive : (\A i \in ids : R.index[i] = u) => D.uid = u /\ Alike(D.res, R)
<1> DEFINE found == {R.index[i] : i \in ids} \cap R.alive
<1>1. /\ R \in Parts(R) /\ R.next \in Nat \ {0} /\ ids \subseteq Ids /\ R.alive \subseteq Numbers(R)
      /\ HostIds \cap UserIds = {} /\ HostIds \subseteq Ids
  BY EntitiesAssumption DEF Resolving, Parts, OneKind, Ids
<1>2. CASE found = {}
  <2> DEFINE N == NewEntity(R, t, {})
  <2>1. /\ N \in [uid : {R.next}, res : {N.res}]
        /\ Resolving(N.res) /\ N.res.next = R.next + 1
        /\ N.res.alive = R.alive \cup {R.next}
        /\ N.res.index = R.index /\ N.res.leases = R.leases
        /\ N.res.entity[R.next].ids = {}
    BY NewEntityMade
  <2>2. D = Claim(N, ids, t)
    BY <1>2 DEF Durable
  <2> HIDE DEF N
  <2>3. R.next \in Numbers(N.res) /\ R.next \notin Numbers(R) \cup {0}
    BY <1>1, <2>1 DEF Numbers
  <2>4. /\ \A i \in Ids : N.res.index[i] # R.next
        /\ \A ip \in Ips : \A l \in N.res.leases[ip] : l[2] # R.next
    BY <1>1, <2>1, <2>3 DEF Parts
  <2>5. Fits(N.res, R.next, ids)
    <3>1. HostIds \subseteq Ids /\ UserIds \subseteq Ids
      BY DEF Ids
    <3> QED
      BY <2>1, <2>4, <3>1 DEF Fits, OneKind
  <2>6. /\ D \in [uid : {R.next}, res : {D.res}]
        /\ Resolving(D.res) /\ D.res.next = N.res.next
        /\ D.res.alive = N.res.alive /\ D.res.leases = N.res.leases
        /\ D.res.index = [i \in Ids |-> IF i \in ids THEN R.next ELSE N.res.index[i]]
    BY <2>1, <2>2, <2>3, <2>5, Claimed
  <2>7. D.uid = R.next /\ R.next \in D.res.alive /\ R.next <= D.res.next
    BY <1>1, <2>1, <2>6
  <2>8. \A i \in ids : D.res.index[i] = D.uid
    BY <1>1, <2>6, <2>7
  <2>9. ASSUME ids \subseteq UserIds, NEW i \in HostIds
        PROVE  /\ D.res.index[i] = R.index[i]
               /\ R.index[i] \in R.alive => R.index[i] \in D.res.alive
    BY <1>1, <2>1, <2>6, <2>9
  <2>10. \A u \in R.alive : ~ \A i \in ids : R.index[i] = u
    BY <1>2
  <2> QED
    BY <2>1, <2>6, <2>7, <2>8, <2>9, <2>10
<1>3. CASE found # {}
  <2> DEFINE N == Merge(R, found)
  <2>1. /\ N \in [uid : found, res : {N.res}]
        /\ Resolving(N.res) /\ N.res.next = R.next
        /\ N.res.alive = R.alive \ (found \ {N.uid})
        /\ Fits(N.res, N.uid, ids)
        /\ ids \subseteq UserIds =>
             N.res.leases = R.leases /\ \A i \in HostIds : N.res.index[i] = R.index[i]
        /\ found = {N.uid} => Alike(N.res, R)
    BY <1>3, MergeMade
  <2>2. D = Claim(N, ids, t)
    BY <1>1, <1>3 DEF Durable
  <2> HIDE DEF N
  <2>3. N.uid \in found /\ N \in [uid : {N.uid}, res : {N.res}]
    BY <2>1
  <2>4. N.uid \in N.res.alive /\ N.uid \in Numbers(N.res)
    BY <1>1, <2>1, <2>3 DEF Numbers
  <2>5. /\ D \in [uid : {N.uid}, res : {D.res}]
        /\ Resolving(D.res) /\ D.res.next = N.res.next
        /\ D.res.alive = N.res.alive /\ D.res.leases = N.res.leases
        /\ D.res.index = [i \in Ids |-> IF i \in ids THEN N.uid ELSE N.res.index[i]]
    BY <2>1, <2>2, <2>3, <2>4, Claimed
  <2>6. D.uid = N.uid /\ D.uid \in D.res.alive /\ R.next <= D.res.next
    BY <1>1, <2>1, <2>4, <2>5
  <2>7. \A i \in ids : D.res.index[i] = D.uid
    BY <1>1, <2>5, <2>6
  <2>8. ASSUME ids \subseteq UserIds, NEW i \in HostIds
        PROVE  /\ D.res.index[i] = R.index[i]
               /\ R.index[i] \in R.alive => R.index[i] \in D.res.alive
    <3>1. R.index[i] \in R.alive => R.index[i] \notin found
      <4>1. \A e \in R.alive : e # 0
        BY <1>1 DEF Numbers
      <4> QED
        BY <2>8, <4>1 DEF Resolving, KindsApart
    <3>2. D.res.index[i] = R.index[i]
      BY <1>1, <2>1, <2>5, <2>8
    <3> QED
      BY <2>1, <2>5, <3>1, <3>2
  <2>9. ASSUME NEW u \in R.alive, \A i \in ids : R.index[i] = u
        PROVE  D.uid = u /\ Alike(D.res, R)
    <3>1. found = {u}
      BY <2>9
    <3>2. N.uid = u /\ Alike(N.res, R)
      BY <2>1, <2>3, <3>1
    <3>3. D.res.index = R.index
      BY <1>1, <2>5, <2>9, <3>2 DEF Alike, Parts
    <3> QED
      BY <2>5, <2>6, <3>2, <3>3 DEF Alike
  <2> QED
    BY <2>1, <2>5, <2>6, <2>7, <2>8, <2>9
<1> QED
  BY <1>2, <1>3

\* Who held an address: nobody, or an entity with a lease of it.
LEMMA HolderIs ==
  ASSUME NEW R, Resolving(R), NEW ip \in Ips, NEW t \in Nat
  PROVE  /\ Holder(R, ip, t) \in Numbers(R) \cup {0}
         /\ Holder(R, ip, t) # 0 => \E l \in R.leases[ip] : Holder(R, ip, t) = l[2]
         /\ Holder(R, ip, t) = 0 => \A l \in R.leases[ip] : ~(l[1] <= t)
<1> DEFINE past == {l \in R.leases[ip] : l[1] <= t}
           f == [l \in past |-> t - l[1]]
           g == [l \in past |-> R.next - l[2]]
           h == [l \in past |-> 0]
<1>1. \A l \in past : /\ l[1] \in Nat /\ l[2] \in Nat /\ l[2] < R.next /\ l[2] # 0
                      /\ l[1] <= t /\ l[2] \in Numbers(R)
  BY DEF Resolving, Parts, Numbers
<1>2. CASE past = {}
  BY <1>2 DEF Holder
<1>3. CASE past # {}
  <2>1. f \in [past -> Nat] /\ g \in [past -> Nat] /\ h \in [past -> Nat]
    BY <1>1 DEF Resolving, Parts
  <2>2. \A l \in past : f[l] = t - l[1] /\ g[l] = R.next - l[2]
    OBVIOUS
  <2> HIDE DEF f, g, h
  <2>3. PICK l \in past : FirstBy(past, f, g, h, l)
    BY <1>3, <2>1, LeastByThree
  <2>4. \A k \in past : k[1] < l[1] \/ (k[1] = l[1] /\ k[2] <= l[2])
    <3>1. ASSUME NEW k \in past PROVE k[1] < l[1] \/ (k[1] = l[1] /\ k[2] <= l[2])
      <4>1. f[k] = t - k[1] /\ g[k] = R.next - k[2] /\ f[l] = t - l[1] /\ g[l] = R.next - l[2]
        BY <2>2
      <4>2. /\ k[1] \in Nat /\ k[2] \in Nat /\ k[1] <= t /\ l[1] \in Nat /\ l[2] \in Nat /\ l[1] <= t
            /\ R.next \in Nat
        BY <1>1 DEF Resolving, Parts
      <4>3. f[l] < f[k] \/ (f[l] = f[k] /\ g[l] <= g[k])
        BY <2>3, <4>1, <4>2 DEF FirstBy
      <4> QED
        BY <4>1, <4>2, <4>3
    <3> QED
      BY <3>1
  <2> DEFINE Top(x) == \A k \in past : k[1] < x[1] \/ (k[1] = x[1] /\ k[2] <= x[2])
             top == CHOOSE x \in past : Top(x)
  <2>5. top \in past
    <3>1. Top(l)
      BY <2>4
    <3> HIDE DEF Top, past
    <3> QED
      BY <3>1, <2>3
  <2>6. Holder(R, ip, t) = top[2]
    BY <1>3 DEF Holder
  <2> QED
    BY <1>1, <2>5, <2>6
<1> QED
  BY <1>2, <1>3

\* L is R with the address leased to e at t.
Leased(R, ip, e, t, L) ==
  /\ Resolving(L) /\ L.next = R.next /\ L.alive = R.alive /\ L.index = R.index
  /\ Holder(L, ip, t) = e \/ <<t, e>> \in L.leases[ip]
  /\ Holder(R, ip, t) # e => L.leases[ip] = R.leases[ip] \cup {<<t, e>>}
  /\ (Holder(R, ip, t) = e \/ <<t, e>> \in R.leases[ip]) => Alike(L, R)

\* A lease of an address to an entity that no user is.
LEMMA LeaseMade ==
  ASSUME NEW R, Resolving(R), NEW ip \in Ips, NEW e \in Numbers(R), NEW t \in Nat,
         \A j \in UserIds : R.index[j] # e, NEW L, L = Lease(R, ip, e, t)
  PROVE  Leased(R, ip, e, t, L)
<1>1. R \in Parts(R) /\ e \in Nat
  BY DEF Resolving, Numbers
<1>2. CASE Holder(R, ip, t) = e
  <2>1. L = R
    BY <1>2 DEF Lease
  <2> QED
    BY <1>2, <2>1 DEF Alike, Leased
<1>3. CASE Holder(R, ip, t) # e
  <2> DEFINE leases == [R.leases EXCEPT ![ip] = @ \cup {<<t, e>>}]
             named  == [R.entity EXCEPT ![e].ids = @ \cup {ip}]
  <2>1. L = [R EXCEPT !.leases = leases, !.entity = named]
    BY <1>1, <1>3 DEF Lease, Parts
  <2>2. /\ leases \in [Ips -> SUBSET (Nat \X Numbers(R))]
        /\ leases[ip] = R.leases[ip] \cup {<<t, e>>}
        /\ \A i \in Ips \ {ip} : leases[i] = R.leases[i]
    BY <1>1 DEF Parts
  <2>3. /\ named \in [Numbers(R) -> [first : Nat, ids : SUBSET Ids]]
        /\ named[e].ids = R.entity[e].ids \cup {ip}
        /\ \A d \in Numbers(R) \ {e} : named[d] = R.entity[d]
    BY <1>1 DEF Parts, Ids
  <2>4. <<t, e>> \in R.leases[ip] => leases = R.leases
    BY <1>1, <2>2 DEF Parts
  <2> HIDE DEF leases, named
  <2>5. L.next = R.next /\ L.alive = R.alive /\ L.index = R.index /\ L.leases = leases /\ L.entity = named
    BY <1>1, <2>1 DEF Parts
  <2>6. L \in [next : {R.next}, entity : {named}, alive : {R.alive}, index : {R.index}, leases : {leases}]
    BY <1>1, <2>1 DEF Parts
  <2>7. L \in Parts(L)
    <3>1. Numbers(L) = Numbers(R)
      BY <2>5 DEF Numbers
    <3> QED
      BY <1>1, <2>2, <2>3, <2>5, <2>6, <3>1 DEF Parts
  <2>8. KindsApart(L)
    <3>1. /\ (HostIds \cup UserIds) \cap Ips = {} /\ HostIds \subseteq Ids /\ UserIds \subseteq Ids
      BY EntitiesAssumption DEF Ids
    <3>2. \A d \in Numbers(R) : /\ named[d].ids \cap HostIds = R.entity[d].ids \cap HostIds
                                /\ named[d].ids \cap UserIds = R.entity[d].ids \cap UserIds
      BY <2>3, <3>1
    <3>3. \A i \in Ids : R.index[i] # 0 => R.index[i] \in Numbers(R)
      BY <1>1 DEF Parts
    <3>4. \A j \in UserIds : R.index[j] # 0 => \A i \in Ips : \A l \in leases[i] : l[2] # R.index[j]
      BY <2>2 DEF Resolving, KindsApart
    <3> QED
      BY <2>5, <3>1, <3>2, <3>3, <3>4 DEF Resolving, KindsApart
  <2> QED
    BY <1>3, <2>2, <2>4, <2>5, <2>7, <2>8 DEF Resolving, Alike, Leased
<1> QED
  BY <1>2, <1>3

\* The address of a device without a name has a holder then.
LEMMA DeviceIpMade ==
  ASSUME NEW R, Resolving(R), NEW ip \in Ips, NEW t \in Nat, NEW N, N = DeviceIp(R, ip, t)
  PROVE  /\ N \in [uid : Numbers(N.res), res : {N.res}]
         /\ Resolving(N.res) /\ R.next <= N.res.next
         /\ Holder(N.res, ip, t) = N.uid
<1>1. R \in Parts(R) /\ R.next \in Nat \ {0}
  BY DEF Resolving, Parts
<1>2. CASE Holder(R, ip, t) # 0
  <2>1. N = [uid |-> Holder(R, ip, t), res |-> R]
    BY <1>2 DEF DeviceIp
  <2> QED
    BY <1>1, <1>2, <2>1, HolderIs
<1>3. CASE Holder(R, ip, t) = 0
  <2> DEFINE E == NewEntity(R, t, {ip})
             L == Lease(E.res, ip, R.next, t)
  <2>1. /\ E \in [uid : {R.next}, res : {E.res}]
        /\ Resolving(E.res) /\ E.res.next = R.next + 1
        /\ E.res.alive = R.alive \cup {R.next}
        /\ E.res.index = R.index /\ E.res.leases = R.leases
    BY NewEntityMade
  <2>2. N = [E EXCEPT !.res = L]
    BY <1>3, <2>1 DEF DeviceIp
  <2> HIDE DEF E
  <2>3. R.next \in Numbers(E.res) /\ R.next \notin Numbers(R) \cup {0}
    BY <1>1, <2>1 DEF Numbers
  <2>4. \A j \in UserIds : E.res.index[j] # R.next
    BY <1>1, <2>1, <2>3 DEF Parts, Ids
  <2>5. Holder(E.res, ip, t) = 0
    BY <1>3, <2>1 DEF Holder
  <2>6. /\ Resolving(L) /\ L.next = R.next + 1
        /\ L.leases[ip] = R.leases[ip] \cup {<<t, R.next>>}
    <3>1. L = Lease(E.res, ip, R.next, t) /\ Holder(E.res, ip, t) # R.next
      BY <1>1, <2>5
    <3> HIDE DEF L
    <3>2. Leased(E.res, ip, R.next, t, L)
      BY <2>1, <2>3, <2>4, <3>1, LeaseMade
    <3> QED
      BY <2>1, <3>1, <3>2 DEF Leased
  <2> HIDE DEF L
  <2>7. N.uid = R.next /\ N.res = L /\ N \in [uid : {R.next}, res : {L}]
    BY <2>1, <2>2
  <2>8. \A l \in R.leases[ip] : ~(l[1] <= t)
    BY <1>3, HolderIs
  <2>9. {l \in L.leases[ip] : l[1] <= t} = {<<t, R.next>>}
    BY <2>6, <2>8
  <2>10. Holder(L, ip, t) = R.next
    <3> DEFINE past == {l \in L.leases[ip] : l[1] <= t}
               top == CHOOSE l \in past : \A k \in past : k[1] < l[1] \/ (k[1] = l[1] /\ k[2] <= l[2])
    <3>1. past = {<<t, R.next>>}
      BY <2>9
    <3>2. Holder(L, ip, t) = IF past = {} THEN 0 ELSE top[2]
      BY DEF Holder
    <3> HIDE DEF past
    <3>3. top = <<t, R.next>>
      BY <1>1, <3>1
    <3> HIDE DEF top
    <3> QED
      BY <3>1, <3>2, <3>3
  <2> QED
    BY <1>1, <2>6, <2>7, <2>10 DEF Numbers
<1> QED
  BY <1>2, <1>3

\* A source address is that of its holder, or of an entity of its own.
LEMMA SourceIpMade ==
  ASSUME NEW R, Resolving(R), NEW ip \in Ips, NEW t \in Nat, NEW N, N = SourceIp(R, ip, t)
  PROVE  /\ N \in [uid : Numbers(N.res), res : {N.res}]
         /\ Resolving(N.res) /\ R.next <= N.res.next
         /\ R.alive \subseteq N.res.alive /\ N.res.leases = R.leases
         /\ \A i \in Ids \ Ips : N.res.index[i] = R.index[i]
         /\ IF Holder(R, ip, t) = 0 THEN N.res.index[ip] = N.uid /\ N.uid \in N.res.alive
                                   ELSE N.uid = Holder(R, ip, t)
<1>1. R \in Parts(R) /\ R.next \in Nat \ {0} /\ ip \in Ids
  BY DEF Resolving, Parts, Ids
<1>2. CASE Holder(R, ip, t) # 0
  <2>1. N = [uid |-> Holder(R, ip, t), res |-> R]
    BY <1>2 DEF SourceIp
  <2> QED
    BY <1>1, <1>2, <2>1, HolderIs
<1>3. CASE Holder(R, ip, t) = 0 /\ R.index[ip] \in R.alive
  <2>1. N = [uid |-> R.index[ip], res |-> R]
    BY <1>3 DEF SourceIp
  <2> QED
    BY <1>1, <1>3, <2>1 DEF Parts
<1>4. CASE Holder(R, ip, t) = 0 /\ R.index[ip] \notin R.alive
  <2> DEFINE E == NewEntity(R, t, {ip})
             index == [R.index EXCEPT ![ip] = R.next]
  <2>1. /\ E \in [uid : {R.next}, res : {E.res}]
        /\ Resolving(E.res) /\ E.res.next = R.next + 1
        /\ E.res.alive = R.alive \cup {R.next}
        /\ E.res.index = R.index /\ E.res.leases = R.leases
    BY NewEntityMade
  <2>2. N = [E EXCEPT !.res.index[ip] = R.next]
    BY <1>4 DEF SourceIp
  <2> HIDE DEF E
  <2>3. E.res \in Parts(E.res) /\ R.next \in Numbers(E.res)
    BY <1>1, <2>1 DEF Resolving, Numbers
  <2>4. N = [E EXCEPT !.res = [E.res EXCEPT !.index = index]]
    BY <2>1, <2>2, <2>3 DEF Parts
  <2>5. /\ index \in [Ids -> Numbers(E.res) \cup {0}] /\ index[ip] = R.next
        /\ \A i \in Ids \ {ip} : index[i] = R.index[i]
    BY <1>1, <2>1, <2>3 DEF Parts
  <2> HIDE DEF index
  <2>6. N.uid = R.next /\ N.res = [E.res EXCEPT !.index = index] /\ N \in [uid : {R.next}, res : {N.res}]
    BY <2>1, <2>4
  <2>7. /\ N.res.next = R.next + 1 /\ N.res.alive = R.alive \cup {R.next} /\ N.res.index = index
        /\ N.res.leases = R.leases /\ N.res.entity = E.res.entity
    BY <2>1, <2>3, <2>6 DEF Parts
  <2>8. N.res \in [next : {N.res.next}, entity : {E.res.entity}, alive : {E.res.alive},
                   index : {index}, leases : {E.res.leases}]
    BY <2>1, <2>3, <2>6, <2>7 DEF Parts
  <2>9. N.res \in Parts(N.res)
    <3>1. Numbers(N.res) = Numbers(E.res)
      BY <2>1, <2>7 DEF Numbers
    <3> QED
      BY <2>1, <2>3, <2>5, <2>7, <2>8, <3>1 DEF Parts
  <2>10. KindsApart(N.res)
    <3>1. HostIds \subseteq Ids \ {ip} /\ UserIds \subseteq Ids \ {ip}
      BY EntitiesAssumption DEF Ids
    <3>2. /\ \A i \in HostIds \cup UserIds : N.res.index[i] = E.res.index[i]
          /\ N.res.leases = E.res.leases /\ N.res.entity = E.res.entity
      BY <2>1, <2>5, <2>7, <3>1
    <3> QED
      BY <2>1, <3>2 DEF Resolving, KindsApart
  <2> QED
    BY <1>1, <1>4, <2>1, <2>3, <2>5, <2>6, <2>7, <2>9, <2>10 DEF Resolving, Numbers
<1> QED
  BY <1>2, <1>3, <1>4

----------------------------------------------------------------------------
\* Entities: the resolution of an alert.

\* What names the host of an alert.
HostNames(v) == v.host \cup v.process

\* Work on an alert: a resolver and what was touched.
Touches(R) == Nat \X Numbers(R) \X ((SUBSET Ids) \ {{}})
Working(W) ==
  /\ W \in [res : {W.res}, touches : SUBSET Touches(W.res)]
  /\ Resolving(W.res) /\ IsFiniteSet(W.touches)
Touching(T, u, ids) == T \cup {<<Cardinality(T) + 1, u, ids>>}

\* What the identifiers of v find, so that it would be found again: its host,
\* the holder of its device's address, its user and its source.
HostFound(R, v, h) ==
  HostNames(v) # {} => h \in R.alive /\ \A i \in HostNames(v) : R.index[i] = h
DeviceHeld(R, v, h, d) ==
  v.device # NoIp =>
    IF HostNames(v) = {} THEN d # 0 /\ Holder(R, v.device, v.time) = d
    ELSE d = h /\ (Holder(R, v.device, v.time) = h \/ <<v.time, h>> \in R.leases[v.device])
UserFound(R, v, u) == v.user # {} => u \in R.alive /\ \A i \in v.user : R.index[i] = u
SourceHeld(R, v, s) ==
  v.src # NoIp => \/ s # 0 /\ Holder(R, v.src, v.time) = s
                  \/ Holder(R, v.src, v.time) = 0 /\ R.index[v.src] = s /\ s \in R.alive

\* The touches, in the order of the resolution.
HostTouched(v, h) == IF HostNames(v) = {} THEN {} ELSE Touching({}, h, HostNames(v))
DeviceTouched(v, h, d) ==
  IF v.device = NoIp THEN HostTouched(v, h) ELSE Touching(HostTouched(v, h), d, {v.device})
UserTouched(v, h, d, u) ==
  IF v.user = {} THEN DeviceTouched(v, h, d) ELSE Touching(DeviceTouched(v, h, d), u, v.user)
AllTouched(v, h, d, u, s) ==
  IF v.src = NoIp THEN UserTouched(v, h, d, u)
  ELSE Touching(UserTouched(v, h, d, u), s, {v.src})

\* The identifiers of an alert, by kind.
LEMMA PayloadParts ==
  ASSUME NEW v \in Payloads
  PROVE  /\ v.time \in Nat /\ HostNames(v) \subseteq HostIds /\ v.user \subseteq UserIds
         /\ v.host \cup v.process = HostNames(v)
         /\ v.device \in Ips \cup {NoIp} /\ v.src \in Ips \cup {NoIp}
         /\ OneKind(HostNames(v)) /\ OneKind(v.user)
BY DEF Payloads, HostNames, OneKind

\* X is W after a touch of what N found.
Touched(W, N, ids, X) ==
  Working(X) /\ X.res = N.res /\ X.touches = Touching(W.touches, N.uid, ids)

\* One more touch.
LEMMA TouchMade ==
  ASSUME NEW W, Working(W), NEW N, N \in [uid : Numbers(N.res), res : {N.res}], Resolving(N.res),
         W.res.next <= N.res.next, NEW ids \in SUBSET Ids, ids # {}, NEW X, X = Touch(W, N, ids)
  PROVE  Touched(W, N, ids, X)
<1>1. N.uid \in Numbers(N.res) /\ N.uid # 0
  BY DEF Numbers
<1>2. X = [res |-> N.res, touches |-> Touching(W.touches, N.uid, ids)]
  BY <1>1 DEF Touch, Touching
<1>3. X.res = N.res /\ X.touches = Touching(W.touches, N.uid, ids)
  BY <1>2
<1>4. Numbers(W.res) \subseteq Numbers(N.res)
  <2>1. W.res.next \in Nat /\ N.res.next \in Nat
    BY DEF Working, Resolving, Parts
  <2> QED
    BY <2>1 DEF Numbers
<1>5. W.touches \subseteq Touches(N.res) /\ IsFiniteSet(W.touches)
  BY <1>4 DEF Working, Touches
<1>6. Cardinality(W.touches) + 1 \in Nat
  BY <1>5, FS_CardinalityType
<1>7. X.touches \subseteq Touches(N.res) /\ IsFiniteSet(X.touches)
  <2>1. <<Cardinality(W.touches) + 1, N.uid, ids>> \in Touches(N.res)
    BY <1>1, <1>6 DEF Touches
  <2>2. IsFiniteSet(W.touches \cup {<<Cardinality(W.touches) + 1, N.uid, ids>>})
    BY <1>5, FS_AddElement
  <2> QED
    BY <1>3, <1>5, <2>1, <2>2 DEF Touching
<1> QED
  BY <1>2, <1>3, <1>7 DEF Working, Touched

\* The host of an alert is found or made, and found again.
LEMMA HostStage ==
  ASSUME NEW W, Working(W), W.touches = {}, NEW v \in Payloads,
         NEW X, X = ByHost(W, v.host \cup v.process, v)
  PROVE  /\ Working(X) /\ W.res.next <= X.res.next
         /\ \E h : HostFound(X.res, v, h) /\ X.touches = HostTouched(v, h)
         /\ \A h : HostFound(W.res, v, h) => X.touches = HostTouched(v, h) /\ Alike(X.res, W.res)
<1> DEFINE ids == HostNames(v)
           D == Durable(W.res, ids, v.time)
<1>1. X = Touch(W, D, ids)
  BY PayloadParts DEF ByHost
<1>2. W.res.next \in Nat
  BY DEF Working, Resolving, Parts
<1>3. CASE ids = {}
  <2>1. X = [res |-> W.res, touches |-> W.touches]
    BY <1>1, <1>3 DEF Durable, Touch
  <2>2. X.res = W.res /\ X.touches = W.touches
    BY <2>1
  <2>3. Working(X)
    BY <2>1, <2>2 DEF Working
  <2>4. \A h : X.touches = HostTouched(v, h) /\ Alike(X.res, W.res)
    BY <1>3, <2>2 DEF HostTouched, Alike
  <2>5. HostFound(X.res, v, 0)
    BY <1>3 DEF HostFound
  <2>6. W.res.next <= X.res.next
    BY <1>2, <2>2
  <2>7. HostFound(X.res, v, 0) /\ X.touches = HostTouched(v, 0)
    BY <2>4, <2>5
  <2> HIDE DEF ids, D
  <2> QED
    BY ONLY <2>3, <2>4, <2>6, <2>7
<1>4. CASE ids # {}
  <2>1. /\ D \in [uid : D.res.alive, res : {D.res}]
        /\ Resolving(D.res) /\ W.res.next <= D.res.next
        /\ \A i \in ids : D.res.index[i] = D.uid
        /\ \A h \in W.res.alive : (\A i \in ids : W.res.index[i] = h) => D.uid = h /\ Alike(D.res, W.res)
    BY <1>4, PayloadParts, DurableMade DEF Working
  <2> HIDE DEF D
  <2>2. D.res.alive \subseteq Numbers(D.res)
    BY <2>1 DEF Resolving, Parts
  <2>3. Working(X) /\ X.res = D.res /\ X.touches = Touching({}, D.uid, ids)
    <3>1. ids \in SUBSET Ids
      BY PayloadParts DEF Ids
    <3>2. D \in [uid : Numbers(D.res), res : {D.res}]
      BY <2>1, <2>2
    <3>3. Touched(W, D, ids, X)
      BY <1>1, <1>4, <2>1, <3>1, <3>2, TouchMade
    <3> QED
      BY <3>3 DEF Touched
  <2>4. HostFound(X.res, v, D.uid) /\ X.touches = HostTouched(v, D.uid)
    BY <1>4, <2>1, <2>3 DEF HostFound, HostTouched
  <2>5. ASSUME NEW h, HostFound(W.res, v, h)
        PROVE  X.touches = HostTouched(v, h) /\ Alike(X.res, W.res)
    <3>1. D.uid = h /\ Alike(D.res, W.res)
      BY <1>4, <2>1, <2>5 DEF HostFound
    <3> QED
      BY <2>3, <2>4, <3>1
  <2> QED
    BY <2>1, <2>3, <2>4, <2>5
<1> QED
  BY <1>3, <1>4

\* The address of a device has a holder then: its host, where it has a name.
LEMMA DeviceStage ==
  ASSUME NEW W, Working(W), NEW v \in Payloads, NEW h, HostFound(W.res, v, h),
         W.touches = HostTouched(v, h), NEW X, X = ByDevice(W, v)
  PROVE  /\ Working(X) /\ W.res.next <= X.res.next
         /\ \E d : /\ HostFound(X.res, v, h) /\ DeviceHeld(X.res, v, h, d)
                   /\ X.touches = DeviceTouched(v, h, d)
         /\ \A d : DeviceHeld(W.res, v, h, d) =>
              X.touches = DeviceTouched(v, h, d) /\ Alike(X.res, W.res)
<1> DEFINE ip == v.device
           t == v.time
<1>1. W.res.next \in Nat /\ Resolving(W.res) /\ t \in Nat
  BY PayloadParts DEF Working, Resolving, Parts
<1>2. CASE ip = NoIp
  <2>1. X = W
    BY <1>2 DEF ByDevice
  <2> QED
    BY <1>1, <1>2, <2>1 DEF DeviceHeld, DeviceTouched, Alike
<1>3. CASE ip # NoIp /\ HostNames(v) = {}
  <2> DEFINE N == DeviceIp(W.res, ip, t)
  <2>1. ip \in Ips /\ {ip} \in SUBSET Ids /\ {ip} # {} /\ W.touches = {}
    BY <1>3, PayloadParts DEF Ids, HostTouched
  <2>2. X = Touch(W, N, {ip})
    BY <1>3, <2>1 DEF ByDevice
  <2>3. /\ N \in [uid : Numbers(N.res), res : {N.res}]
        /\ Resolving(N.res) /\ W.res.next <= N.res.next
        /\ Holder(N.res, ip, t) = N.uid
    BY <1>1, <2>1, DeviceIpMade
  <2>4. \A d : d # 0 /\ Holder(W.res, ip, t) = d => N.uid = d /\ N.res = W.res
    BY DEF DeviceIp
  <2> HIDE DEF N
  <2>5. Touched(W, N, {ip}, X)
    BY <2>1, <2>2, <2>3, TouchMade
  <2>6. Working(X) /\ X.res = N.res /\ X.touches = Touching(HostTouched(v, h), N.uid, {ip})
    BY <2>5 DEF Touched
  <2>7. N.uid # 0
    BY <2>3 DEF Numbers
  <2>8. HostFound(X.res, v, h) /\ DeviceHeld(X.res, v, h, N.uid)
    BY <1>3, <2>3, <2>6, <2>7 DEF HostFound, DeviceHeld
  <2>9. X.touches = DeviceTouched(v, h, N.uid)
    BY <1>3, <2>6 DEF DeviceTouched
  <2>10. ASSUME NEW d, DeviceHeld(W.res, v, h, d)
         PROVE  X.touches = DeviceTouched(v, h, d) /\ Alike(X.res, W.res)
    BY <1>3, <2>4, <2>6, <2>9, <2>10 DEF DeviceHeld, Alike
  <2> QED
    BY <2>3, <2>6, <2>8, <2>9, <2>10
<1>4. CASE ip # NoIp /\ HostNames(v) # {}
  <2> DEFINE L == Lease(W.res, ip, h, t)
             N == [uid |-> h, res |-> L]
  <2>1. ip \in Ips /\ {ip} \in SUBSET Ids /\ {ip} # {}
    BY <1>4, PayloadParts DEF Ids
  <2>2. (CHOOSE c \in W.touches : TRUE)[2] = h /\ W.touches # {}
    <3>1. PICK c : c = <<Cardinality({}) + 1, h, HostNames(v)>>
      OBVIOUS
    <3>2. W.touches = {c} /\ c[2] = h
      BY <1>4, <3>1 DEF HostTouched, Touching
    <3>3. (CHOOSE x \in {c} : TRUE) = c
      OBVIOUS
    <3> QED
      BY <3>2, <3>3
  <2>3. X = Touch(W, N, {ip})
    BY <1>4, <2>2 DEF ByDevice
  <2>4. h \in W.res.alive /\ \E i \in HostIds : W.res.index[i] = h
    BY <1>4, PayloadParts DEF HostFound
  <2>5. h \in Numbers(W.res) /\ h # 0
    BY <1>1, <2>4 DEF Resolving, Parts, Numbers
  <2>6. \A j \in UserIds : W.res.index[j] # h
    BY <1>1, <2>4, <2>5 DEF Resolving, KindsApart
  <2>7. L = Lease(W.res, ip, h, t)
    OBVIOUS
  <2> HIDE DEF L
  <2>8. Leased(W.res, ip, h, t, L)
    BY <1>1, <2>1, <2>5, <2>6, <2>7, LeaseMade
  <2>9. /\ Resolving(L) /\ L.next = W.res.next /\ L.alive = W.res.alive /\ L.index = W.res.index
        /\ Holder(L, ip, t) = h \/ <<t, h>> \in L.leases[ip]
        /\ (Holder(W.res, ip, t) = h \/ <<t, h>> \in W.res.leases[ip]) => Alike(L, W.res)
    BY <2>8 DEF Leased
  <2>10. N.uid = h /\ N.res = L /\ N \in [uid : Numbers(N.res), res : {N.res}]
    BY <2>5, <2>9 DEF Numbers
  <2> HIDE DEF N
  <2>11. Touched(W, N, {ip}, X)
    BY <1>1, <2>1, <2>3, <2>9, <2>10, TouchMade
  <2>12. Working(X) /\ X.res = L /\ X.touches = Touching(HostTouched(v, h), h, {ip})
    BY <2>10, <2>11 DEF Touched
  <2>13. HostFound(X.res, v, h) /\ DeviceHeld(X.res, v, h, h)
    BY <1>4, <2>9, <2>12 DEF HostFound, DeviceHeld
  <2>14. X.touches = DeviceTouched(v, h, h)
    BY <1>4, <2>12 DEF DeviceTouched
  <2>15. ASSUME NEW d, DeviceHeld(W.res, v, h, d)
         PROVE  X.touches = DeviceTouched(v, h, d) /\ Alike(X.res, W.res)
    BY <1>4, <2>9, <2>12, <2>14, <2>15 DEF DeviceHeld
  <2> QED
    BY <1>1, <2>9, <2>12, <2>13, <2>14, <2>15
<1> QED
  BY <1>2, <1>3, <1>4

\* The user of an alert is found or made, with nothing else changed.
LEMMA UserStage ==
  ASSUME NEW W, Working(W), NEW v \in Payloads, NEW h, NEW d, HostFound(W.res, v, h),
         DeviceHeld(W.res, v, h, d), W.touches = DeviceTouched(v, h, d), NEW X, X = ByUser(W, v)
  PROVE  /\ Working(X) /\ W.res.next <= X.res.next
         /\ HostFound(X.res, v, h) /\ DeviceHeld(X.res, v, h, d)
         /\ \E u : UserFound(X.res, v, u) /\ X.touches = UserTouched(v, h, d, u)
         /\ \A u : UserFound(W.res, v, u) =>
              X.touches = UserTouched(v, h, d, u) /\ Alike(X.res, W.res)
<1> DEFINE ids == v.user
           D == Durable(W.res, ids, v.time)
<1>1. X = Touch(W, D, ids) /\ W.res.next \in Nat
  BY DEF ByUser, Working, Resolving, Parts
<1>2. CASE ids = {}
  <2>1. X = [res |-> W.res, touches |-> W.touches]
    BY <1>1, <1>2 DEF Durable, Touch
  <2>2. X.res = W.res /\ X.touches = W.touches
    BY <2>1
  <2>3. Working(X)
    BY <2>1, <2>2 DEF Working
  <2> QED
    BY <1>1, <1>2, <2>2, <2>3 DEF UserFound, UserTouched, Alike
<1>3. CASE ids # {}
  <2>1. /\ D \in [uid : D.res.alive, res : {D.res}]
        /\ Resolving(D.res) /\ W.res.next <= D.res.next
        /\ \A i \in ids : D.res.index[i] = D.uid
        /\ ids \subseteq UserIds =>
              /\ D.res.leases = W.res.leases
              /\ \A i \in HostIds :
                   /\ D.res.index[i] = W.res.index[i]
                   /\ W.res.index[i] \in W.res.alive => W.res.index[i] \in D.res.alive
        /\ \A u \in W.res.alive : (\A i \in ids : W.res.index[i] = u) => D.uid = u /\ Alike(D.res, W.res)
    BY <1>3, PayloadParts, DurableMade DEF Working
  <2> HIDE DEF D
  <2>2. D.res.alive \subseteq Numbers(D.res)
    BY <2>1 DEF Resolving, Parts
  <2>3. Working(X) /\ X.res = D.res /\ X.touches = Touching(DeviceTouched(v, h, d), D.uid, ids)
    <3>1. ids \in SUBSET Ids
      BY PayloadParts DEF Ids
    <3>2. D \in [uid : Numbers(D.res), res : {D.res}]
      BY <2>1, <2>2
    <3>3. Touched(W, D, ids, X)
      BY <1>1, <1>3, <2>1, <3>1, <3>2, TouchMade
    <3> QED
      BY <3>3 DEF Touched
  <2>4. UserFound(X.res, v, D.uid) /\ X.touches = UserTouched(v, h, d, D.uid)
    BY <1>3, <2>1, <2>3 DEF UserFound, UserTouched
  <2>5. ASSUME NEW u, UserFound(W.res, v, u)
        PROVE  X.touches = UserTouched(v, h, d, u) /\ Alike(X.res, W.res)
    <3>1. D.uid = u /\ Alike(D.res, W.res)
      BY <1>3, <2>1, <2>5 DEF UserFound
    <3> QED
      BY <2>3, <2>4, <3>1
  <2>6. X.res.leases = W.res.leases
    BY <2>1, <2>3, PayloadParts
  <2>7. HostFound(X.res, v, h)
    BY <2>1, <2>3, PayloadParts DEF HostFound
  <2>8. DeviceHeld(X.res, v, h, d)
    BY <2>6 DEF DeviceHeld, Holder
  <2> QED
    BY <2>1, <2>3, <2>4, <2>5, <2>7, <2>8
<1> QED
  BY <1>2, <1>3

\* A source address is that of its holder or of an entity of its own.
LEMMA SourceStage ==
  ASSUME NEW W, Working(W), NEW v \in Payloads, NEW h, NEW d, NEW u, HostFound(W.res, v, h),
         DeviceHeld(W.res, v, h, d), UserFound(W.res, v, u),
         W.touches = UserTouched(v, h, d, u), NEW X, X = BySource(W, v)
  PROVE  /\ Working(X) /\ W.res.next <= X.res.next
         /\ HostFound(X.res, v, h) /\ DeviceHeld(X.res, v, h, d) /\ UserFound(X.res, v, u)
         /\ \E s : SourceHeld(X.res, v, s) /\ X.touches = AllTouched(v, h, d, u, s)
         /\ \A s : SourceHeld(W.res, v, s) => X.touches = AllTouched(v, h, d, u, s)
<1> DEFINE ip == v.src
           t == v.time
           N == SourceIp(W.res, ip, t)
<1>1. W.res.next \in Nat /\ Resolving(W.res) /\ t \in Nat
  BY PayloadParts DEF Working, Resolving, Parts
<1>2. CASE ip = NoIp
  <2>1. X = W
    BY <1>2 DEF BySource
  <2>2. SourceHeld(X.res, v, 0)
    BY <1>2 DEF SourceHeld
  <2>3. \A s : X.touches = AllTouched(v, h, d, u, s)
    BY <1>2, <2>1 DEF AllTouched
  <2>4. SourceHeld(X.res, v, 0) /\ X.touches = AllTouched(v, h, d, u, 0)
    BY <2>2, <2>3
  <2>5. /\ Working(X) /\ W.res.next <= X.res.next
        /\ HostFound(X.res, v, h) /\ DeviceHeld(X.res, v, h, d) /\ UserFound(X.res, v, u)
    BY <1>1, <2>1
  <2> HIDE DEF N, ip, t
  <2> QED
    BY ONLY <2>3, <2>4, <2>5
<1>3. CASE ip # NoIp
  <2>1. ip \in Ips /\ {ip} \in SUBSET Ids /\ {ip} # {}
    BY <1>3, PayloadParts DEF Ids
  <2>2. X = Touch(W, N, {ip})
    BY <1>3 DEF BySource
  <2>14. N = SourceIp(W.res, ip, t)
    OBVIOUS
  <2> HIDE DEF N
  <2>3. /\ N \in [uid : Numbers(N.res), res : {N.res}]
        /\ Resolving(N.res) /\ W.res.next <= N.res.next
        /\ W.res.alive \subseteq N.res.alive /\ N.res.leases = W.res.leases
        /\ \A i \in Ids \ Ips : N.res.index[i] = W.res.index[i]
        /\ IF Holder(W.res, ip, t) = 0 THEN N.res.index[ip] = N.uid /\ N.uid \in N.res.alive
                                       ELSE N.uid = Holder(W.res, ip, t)
    BY <1>1, <2>1, <2>14, SourceIpMade
  <2>4. \A s : SourceHeld(W.res, v, s) => N.uid = s
    BY <1>3, <2>14 DEF SourceIp, SourceHeld
  <2>5. Touched(W, N, {ip}, X)
    BY <2>1, <2>2, <2>3, TouchMade
  <2>6. Working(X) /\ X.res = N.res /\ X.touches = Touching(UserTouched(v, h, d, u), N.uid, {ip})
    BY <2>5 DEF Touched
  <2>7. N.uid # 0
    BY <2>3 DEF Numbers
  <2>8. HostIds \subseteq Ids \ Ips /\ UserIds \subseteq Ids \ Ips
    BY EntitiesAssumption DEF Ids
  <2>9. HostFound(X.res, v, h) /\ UserFound(X.res, v, u)
    BY <2>3, <2>6, <2>8, PayloadParts DEF HostFound, UserFound
  <2>10. DeviceHeld(X.res, v, h, d)
    BY <2>3, <2>6 DEF DeviceHeld, Holder
  <2>11. Holder(X.res, ip, t) = Holder(W.res, ip, t)
    BY <2>3, <2>6 DEF Holder
  <2>12. SourceHeld(X.res, v, N.uid)
    BY <1>3, <2>3, <2>6, <2>7, <2>11 DEF SourceHeld
  <2>13. X.touches = AllTouched(v, h, d, u, N.uid)
    BY <1>3, <2>6 DEF AllTouched
  <2> QED
    BY <2>3, <2>4, <2>6, <2>9, <2>10, <2>12, <2>13
<1> QED
  BY <1>2, <1>3

\* The least of some numbers is one of them.
LEMMA LeastIs ==
  ASSUME NEW S \in SUBSET Nat, S # {}
  PROVE  Least(S) \in S
<1>1. \E n \in S : \A m \in S : n <= m
  BY LeastNumber
<1> QED
  BY <1>1 DEF Least

\* The primary entity is one of those touched.
LEMMA PrimaryTouched ==
  ASSUME NEW R, NEW T \in SUBSET Touches(R), T # {}
  PROVE  \E c \in T : Primary(T) = c[2]
<1> DEFINE f == [c \in T |-> Rank(c[3])]
           g == [c \in T |-> c[1]]
           h == [c \in T |-> 0]
           Top(c) == \A d \in T : Rank(c[3]) < Rank(d[3]) \/ (Rank(c[3]) = Rank(d[3]) /\ c[1] <= d[1])
           top == CHOOSE c \in T : Top(c)
<1>1. ASSUME NEW c \in T PROVE c[1] \in Nat /\ Rank(c[3]) \in Nat
  <2>1. c[1] \in Nat /\ c[3] \in SUBSET Ids /\ c[3] # {}
    BY DEF Touches
  <2>2. {Precedence[i] : i \in c[3]} \in SUBSET Nat /\ {Precedence[i] : i \in c[3]} # {}
    BY <2>1, EntitiesAssumption
  <2> QED
    BY <2>1, <2>2, LeastIs DEF Rank
<1>2. f \in [T -> Nat] /\ g \in [T -> Nat] /\ h \in [T -> Nat]
  BY <1>1
<1>3. \A c \in T : f[c] = Rank(c[3]) /\ g[c] = c[1]
  OBVIOUS
<1> HIDE DEF f, g, h
<1>4. PICK c \in T : FirstBy(T, f, g, h, c)
  BY <1>2, LeastByThree
<1>5. Top(c)
  BY <1>1, <1>3, <1>4 DEF FirstBy
<1> HIDE DEF Top
<1>6. top \in T
  BY <1>5
<1> QED
  BY <1>6 DEF Primary, Top

\* What alike resolvers find.
LEMMA AlikeFinds ==
  ASSUME NEW R, NEW S, Alike(R, S), NEW v, NEW h, NEW d, NEW u, NEW s
  PROVE  /\ HostFound(R, v, h) <=> HostFound(S, v, h)
         /\ DeviceHeld(R, v, h, d) <=> DeviceHeld(S, v, h, d)
         /\ UserFound(R, v, u) <=> UserFound(S, v, u)
         /\ SourceHeld(R, v, s) <=> SourceHeld(S, v, s)
BY DEF Alike, HostFound, DeviceHeld, UserFound, SourceHeld, Holder

\* Q is a resolution of v by R: the entities are new to it, or Q's resolver
\* would find the same again.
Resolved(R, v, Q) ==
  /\ Resolving(Q.res) /\ R.next <= Q.res.next
  /\ Q.entities \subseteq Numbers(Q.res) /\ Q.primary \in Numbers(Q.res)
  /\ \/ Q.entities \cap Numbers(R) = {}
     \/ Resolve(Q.res, v).entities = Q.entities

\* resolve: a good resolver and entities that it has, found again by the same
\* alert unless they are all new.
LEMMA ResolveMade ==
  ASSUME NEW R, Resolving(R), NEW v \in Payloads
  PROVE  Resolved(R, v, Resolve(R, v))
<1> DEFINE ids == v.host \cup v.process
           A == [res |-> R, touches |-> {}]
           B == ByHost(A, ids, v)
           C == ByDevice(B, v)
           D == ByUser(C, v)
           E == BySource(D, v)
           Q == Resolution(E, v)
<1>1. Resolve(R, v) = Q
  BY DEF Resolve
<1>2. R.next \in Nat /\ A.res = R /\ A.touches = {} /\ Working(A)
  <2>1. IsFiniteSet({})
    BY FS_EmptySet
  <2> QED
    BY <2>1 DEF Working, Resolving, Parts
<1> HIDE DEF A
<1>3. PICK h : /\ Working(B) /\ R.next <= B.res.next
               /\ HostFound(B.res, v, h) /\ B.touches = HostTouched(v, h)
  BY <1>2, HostStage
<1> HIDE DEF B
<1>4. PICK d : /\ Working(C) /\ B.res.next <= C.res.next
               /\ HostFound(C.res, v, h) /\ DeviceHeld(C.res, v, h, d)
               /\ C.touches = DeviceTouched(v, h, d)
  BY <1>3, DeviceStage
<1> HIDE DEF C
<1>5. PICK u : /\ Working(D) /\ C.res.next <= D.res.next
               /\ HostFound(D.res, v, h) /\ DeviceHeld(D.res, v, h, d) /\ UserFound(D.res, v, u)
               /\ D.touches = UserTouched(v, h, d, u)
  BY <1>4, UserStage
<1> HIDE DEF D
<1>6. PICK s : /\ Working(E) /\ D.res.next <= E.res.next
               /\ HostFound(E.res, v, h) /\ DeviceHeld(E.res, v, h, d) /\ UserFound(E.res, v, u)
               /\ SourceHeld(E.res, v, s) /\ E.touches = AllTouched(v, h, d, u, s)
  BY <1>5, SourceStage
<1> HIDE DEF E
<1>7. R.next <= E.res.next /\ E.res.next \in Nat \ {0}
  BY <1>2, <1>3, <1>4, <1>5, <1>6 DEF Working, Resolving, Parts
<1>8. CASE E.touches = {}
  <2> DEFINE N == NewEntity(E.res, v.time, {})
  <2>1. Q = [res |-> N.res, entities |-> {E.res.next}, primary |-> E.res.next]
    BY <1>8 DEF Resolution
  <2>2. Resolving(N.res) /\ N.res.next = E.res.next + 1
    BY <1>6, PayloadParts, NewEntityMade DEF Working
  <2> HIDE DEF N
  <2>3. Q.res = N.res /\ Q.entities = {E.res.next} /\ Q.primary = E.res.next
    BY <2>1
  <2>4. E.res.next \in Numbers(N.res) /\ E.res.next \notin Numbers(R)
    BY <1>2, <1>7, <2>2 DEF Numbers
  <2> HIDE DEF Q
  <2>5. Resolved(R, v, Q)
    BY <1>2, <1>7, <2>2, <2>3, <2>4 DEF Resolved
  <2> QED
    BY <1>1, <2>5
<1>9. CASE E.touches # {}
  <2>1. Q = [res |-> E.res, entities |-> {c[2] : c \in E.touches}, primary |-> Primary(E.touches)]
    BY <1>9 DEF Resolution
  <2>2. Q.res = E.res /\ Q.entities = {c[2] : c \in E.touches} /\ Q.primary = Primary(E.touches)
    BY <2>1
  <2> HIDE DEF Q
  <2>3. E.touches \in SUBSET Touches(E.res) /\ Resolving(E.res)
    BY <1>6 DEF Working
  <2>4. \A c \in E.touches : c[2] \in Numbers(E.res)
    BY <2>3 DEF Touches
  <2>5. Q.primary \in Numbers(E.res)
    BY <1>9, <2>2, <2>3, <2>4, PrimaryTouched
  <2> DEFINE F == [res |-> E.res, touches |-> {}]
             G == ByHost(F, ids, v)
             H == ByDevice(G, v)
             I == ByUser(H, v)
             J == BySource(I, v)
             P == Resolution(J, v)
  <2>6. Resolve(E.res, v) = P
    BY DEF Resolve
  <2>7. F.res = E.res /\ F.touches = {} /\ Working(F)
    <3>1. IsFiniteSet({})
      BY FS_EmptySet
    <3> QED
      BY <2>3, <3>1 DEF Working
  <2> HIDE DEF F
  <2>8. Working(G) /\ G.touches = HostTouched(v, h) /\ Alike(G.res, E.res)
    BY <1>6, <2>7, HostStage
  <2> HIDE DEF G
  <2>9. HostFound(G.res, v, h) /\ DeviceHeld(G.res, v, h, d)
    BY <1>6, <2>8, AlikeFinds
  <2>10. Working(H) /\ H.touches = DeviceTouched(v, h, d) /\ Alike(H.res, G.res)
    BY <2>8, <2>9, DeviceStage
  <2> HIDE DEF H
  <2>11. Alike(H.res, E.res)
    BY <2>8, <2>10 DEF Alike
  <2>12. HostFound(H.res, v, h) /\ DeviceHeld(H.res, v, h, d) /\ UserFound(H.res, v, u)
    BY <1>6, <2>11, AlikeFinds
  <2>13. Working(I) /\ I.touches = UserTouched(v, h, d, u) /\ Alike(I.res, H.res)
    BY <2>10, <2>12, UserStage
  <2> HIDE DEF I
  <2>14. Alike(I.res, E.res)
    BY <2>11, <2>13 DEF Alike
  <2>15. /\ HostFound(I.res, v, h) /\ DeviceHeld(I.res, v, h, d) /\ UserFound(I.res, v, u)
         /\ SourceHeld(I.res, v, s)
    BY <1>6, <2>14, AlikeFinds
  <2>16. J.touches = AllTouched(v, h, d, u, s)
    BY <2>13, <2>15, SourceStage
  <2> HIDE DEF J
  <2>17. P.entities = {c[2] : c \in J.touches} /\ J.touches = E.touches
    BY <1>6, <1>9, <2>16 DEF Resolution
  <2>18. Resolve(Q.res, v).entities = Q.entities
    BY <2>2, <2>6, <2>17
  <2>19. Resolved(R, v, Q)
    BY <1>7, <2>2, <2>3, <2>4, <2>5, <2>18 DEF Resolved
  <2> QED
    BY <1>1, <2>19
<1> QED
  BY <1>8, <1>9

----------------------------------------------------------------------------
\* The inductive invariant of the correlator.

IdSet == Nat \X Nat

\* A chain, of which the members, the first time and the merge matter.
IsChain(k) ==
  k \in [members : SUBSET Alerts, entities : {k.entities}, name : {k.name}, first : Nat,
         tactics : {k.tactics}, disposition : {k.disposition}, merged : IdSet,
         risk : {k.risk}, surfaced : {k.surfaced}]

\* The parts of a correlator.
Engines(E) ==
  [copy : [Alerts -> Nat], buffer : SUBSET Alerts, newest : {E.newest}, placed : SUBSET Alerts,
   res : {E.res}, about : [Alerts -> SUBSET Nat], primary : [Alerts -> Nat],
   lines : SUBSET (Nat \X Alerts), edges : SUBSET SUBSET Alerts, chains : {E.chains},
   of : [Alerts -> IdSet], anchor : [Alerts -> IdSet], count : {E.count}]

\* Its parts are what they should be; timelines and links are of correlated alerts.
Holds(E) ==
  /\ E \in Engines(E) /\ Resolving(E.res)
  /\ E.chains = [c \in DOMAIN E.chains |-> E.chains[c]]
  /\ \A c \in DOMAIN E.chains : IsChain(E.chains[c])
  /\ NoId \notin DOMAIN E.chains
  /\ DOMAIN E.count \subseteq Nat /\ E.count \in [DOMAIN E.count -> Nat]
  /\ E.placed \cap E.buffer = {}
  /\ \A a \in E.placed \cup E.buffer : E.copy[a] \in 1 .. Newest(a)
  /\ \A a \in E.placed : E.primary[a] \in Numbers(E.res)
  /\ \A l \in E.lines : l[1] \in Numbers(E.res) /\ l[2] \in E.placed
  /\ \A p \in E.edges : p \subseteq E.placed

\* An id that was given out, by the counters.
Issued(E, c) == c \in IdSet /\ c[1] \in DOMAIN E.count /\ c[2] \in 1 .. E.count[c[1]]

\* Ids: of one anchor each, which is in the chain that has the id.
IdsHeld(E) ==
  /\ \A c \in DOMAIN E.chains : Issued(E, c)
  /\ \A a \in Alerts : E.anchor[a] # NoId => Issued(E, E.anchor[a])
  /\ \A a, b \in Alerts : E.anchor[a] = E.anchor[b] /\ E.anchor[a] # NoId => a = b
  /\ \A c \in LiveIds(E) : \E a \in E.chains[c].members : E.anchor[a] = c

\* What an alert is connected with.
Connected(E, a) == Component(E.edges, E.placed, a)

\* The members of a chain are the alerts that are of it; alerts of T may be of none.
Assigned(E, T) ==
  /\ \A a \in Alerts \ E.placed : E.of[a] = NoId
  /\ \A a \in E.placed : E.of[a] \in LiveIds(E) \/ (E.of[a] = NoId /\ a \in T)
  /\ \A c \in LiveIds(E) : E.chains[c].members = {a \in E.placed : E.of[a] = c}
\* Alerts of one chain are connected.
Joined(E) ==
  \A a, b \in E.placed : E.of[a] = E.of[b] /\ E.of[a] # NoId => b \in Connected(E, a)
\* Linked alerts are of one chain, unless they are connected with one of T.
Covered(E, T) ==
  \A p \in E.edges : \A a, b \in p : E.of[a] = E.of[b] \/ Connected(E, a) \cap T # {}
\* Chains are what is connected, but for the alerts of T, still to be grouped.
Grouped(E, T) == Assigned(E, T) /\ Joined(E) /\ Covered(E, T)

\* Neighbours on a timeline, near in time, are connected.
Near(E) ==
  \A e \in Nat : \A a \in Line(E, e) : \A b \in Adjacent(E, a, Line(E, e) \ {a}) :
    b \in Connected(E, a)

Steady(E) == Holds(E) /\ IdsHeld(E) /\ Grouped(E, {}) /\ Near(E)

\* What later correlators keep of an earlier one: members stay together, an
\* anchor keeps its id.
Keeps(E, F) ==
  /\ \A c \in LiveIds(E) : \E d \in LiveIds(F) : E.chains[c].members \subseteq F.chains[d].members
  /\ \A a \in Alerts : E.anchor[a] # NoId => F.anchor[a] = E.anchor[a]
\* A chain whose id was made for its first alert.
Leads(E, a, S) == a \in S /\ \A b \in S \ {a} : Precedes(E, a, b)
BearsId(E, d) == \A a \in Alerts : Leads(E, a, E.chains[d].members) => E.anchor[a] = d
\* They keep that, and their new chains have such ids.
Grew(E, F) == Keeps(E, F) /\ \A d \in LiveIds(F) \ LiveIds(E) : BearsId(F, d)

\* What any step leaves of a correlator: as above, but for chains that have
\* gone whole, long after all of their alerts.
Expires(E, c, F) ==
  \A a \in E.chains[c].members :
    a \notin F.placed /\ V(E, a).time + grace + ChainRetention < F.newest
Follows(E, F) ==
  /\ \A c \in LiveIds(E) :
       \/ \E d \in LiveIds(F) : E.chains[c].members \subseteq F.chains[d].members
       \/ Expires(E, c, F)
  /\ \A a \in Alerts : E.anchor[a] # NoId => F.anchor[a] = E.anchor[a]
  /\ \A d \in LiveIds(F) \ LiveIds(E) : BearsId(F, d)

----------------------------------------------------------------------------
\* The invariant of the program.

CorrelatorInv == Steady(M) /\ (phase = "stopped" => M = EmptyEngine)

QueueInv ==
  /\ history \in Histories
  /\ stored \in [Alerts -> Nat] /\ handled \in [Alerts -> Nat]
  /\ \A a \in Alerts : stored[a] <= Newest(a)

\* The parts of a stored investigation.
IsRow(k) ==
  k \in [anchor : Alerts, revision : {k.revision}, content : {k.content}, open : {k.open},
         merged : {k.merged}]

\* A stored investigation holds its anchor, of which the correlator knows the
\* id; a summary on its way to the store has an anchor too.
RowsInv ==
  /\ \A c \in DOMAIN rows : IsRow(rows[c]) /\ rows[c].anchor \in rows[c].content.members
  /\ \A c, d \in DOMAIN rows : rows[c].anchor = rows[d].anchor => c = d
  /\ \A c \in DOMAIN rows : c \in IdSet /\ c # NoId /\ c[2] # 0
  /\ phase # "stopped" => \A c \in DOMAIN rows : M.anchor[rows[c].anchor] = c
  /\ \A c \in DOMAIN snapshot :
       c # NoId /\ \E a \in snapshot[c].members : a \in Alerts /\ M.anchor[a] = c
  /\ phase # "writing" => snapshot = <<>>

ChainsInv == QueueInv /\ CorrelatorInv /\ RowsInv

----------------------------------------------------------------------------
\* Components.

\* A set of alerts that no edge inside S leaves.
Closed(edges, S, T) == \A p \in edges : p \subseteq S /\ p \cap T # {} => p \subseteq T

\* A component is the least such set with the alert.
LEMMA ComponentLeast ==
  ASSUME NEW edges, NEW S, NEW a \in S
  PROVE  /\ a \in Component(edges, S, a)
         /\ Component(edges, S, a) \in SUBSET S
         /\ Closed(edges, S, Component(edges, S, a))
         /\ \A T \in SUBSET S : a \in T /\ Closed(edges, S, T) => Component(edges, S, a) \subseteq T
<1>1. \A T \in SUBSET S : a \in T /\ Closed(edges, S, T) => Component(edges, S, a) \subseteq T
  BY DEF Component, Closed
<1>2. ASSUME NEW p \in edges, p \subseteq S, NEW x \in p, x \in Component(edges, S, a), NEW y \in p
      PROVE  y \in Component(edges, S, a)
  <2>1. y \in S
    BY <1>2
  <2>2. ASSUME NEW T \in SUBSET S, a \in T, Closed(edges, S, T)
        PROVE  y \in T
    <3>1. x \in T
      BY <1>1, <1>2, <2>2
    <3> QED
      BY <1>2, <2>2, <3>1 DEF Closed
  <2> QED
    BY <2>1, <2>2 DEF Component, Closed
<1>3. Closed(edges, S, Component(edges, S, a))
  BY <1>2 DEF Closed
<1> QED
  BY <1>1, <1>3 DEF Component

\* Alerts that are connected have the same component.
LEMMA ComponentSame ==
  ASSUME NEW edges, NEW S, NEW a \in S, NEW b \in Component(edges, S, a)
  PROVE  b \in S /\ Component(edges, S, b) = Component(edges, S, a)
<1>1. b \in S
  BY DEF Component
<1>2. Component(edges, S, b) \subseteq Component(edges, S, a)
  BY <1>1, ComponentLeast
<1>3. a \in Component(edges, S, b)
  <2> DEFINE T == S \ Component(edges, S, b)
  <2>1. Closed(edges, S, T)
    <3>1. Closed(edges, S, Component(edges, S, b))
      BY <1>1, ComponentLeast
    <3> QED
      BY <3>1 DEF Closed
  <2>2. b \notin T
    BY <1>1, ComponentLeast
  <2> HIDE DEF T
  <2>3. a \notin T
    <3>1. T \in SUBSET S
      BY DEF T
    <3> QED
      BY <2>1, <2>2, <3>1, ComponentLeast
  <2> QED
    BY <2>3 DEF T
<1>4. Component(edges, S, a) \subseteq Component(edges, S, b)
  BY <1>1, <1>3, ComponentLeast
<1> QED
  BY <1>1, <1>2, <1>4

\* With more edges and more alerts a component only grows.
LEMMA ComponentGrows ==
  ASSUME NEW edges, NEW S, NEW more, NEW T, S \subseteq T,
         \A p \in edges : p \subseteq S => p \in more,
         NEW a \in S
  PROVE  Component(edges, S, a) \subseteq Component(more, T, a)
<1> DEFINE C == Component(more, T, a) \cap S
<1>1. a \in C
  BY ComponentLeast
<1>2. Closed(more, T, Component(more, T, a))
  BY ComponentLeast
<1>3. Closed(edges, S, C)
  BY <1>2 DEF Closed
<1> HIDE DEF C
<1>4. Component(edges, S, a) \subseteq C
  <2>1. C \in SUBSET S
    BY DEF C
  <2> QED
    BY <1>1, <1>3, <2>1, ComponentLeast
<1> QED
  BY <1>4 DEF C

\* The ends of an edge are connected.
LEMMA EdgeConnects ==
  ASSUME NEW edges, NEW S, NEW p \in edges, p \subseteq S, NEW a \in p, NEW b \in p
  PROVE  b \in Component(edges, S, a)
<1>1. a \in Component(edges, S, a) /\ Closed(edges, S, Component(edges, S, a))
  BY ComponentLeast
<1> QED
  BY <1>1 DEF Closed

\* A component that an edge change does not reach stays connected.
LEMMA ComponentStays ==
  ASSUME NEW edges, NEW S, NEW a \in S, NEW more,
         \A p \in edges : p \subseteq Component(edges, S, a) => p \in more
  PROVE  Component(edges, S, a) \subseteq Component(more, S, a)
<1> DEFINE C == Component(more, S, a) \cap Component(edges, S, a)
<1>1. a \in C /\ C \in SUBSET S
  <2>1. a \in Component(more, S, a)
    BY ComponentLeast
  <2>2. a \in Component(edges, S, a)
    BY ComponentLeast
  <2> QED
    BY <2>1, <2>2 DEF Component
<1>2. Closed(edges, S, C)
  <2>1. Closed(edges, S, Component(edges, S, a))
    BY ComponentLeast
  <2>2. Closed(more, S, Component(more, S, a))
    BY ComponentLeast
  <2> QED
    BY <2>1, <2>2 DEF Closed
<1> HIDE DEF C
<1>3. Component(edges, S, a) \subseteq C
  BY <1>1, <1>2, ComponentLeast
<1> QED
  BY <1>3 DEF C

----------------------------------------------------------------------------
\* The order of alerts, and neighbours on a timeline.

\* A revision that the history has is a payload.
LEMMA PayloadIs ==
  ASSUME history \in Histories, NEW a \in Alerts, NEW r \in 1 .. Newest(a)
  PROVE  Payload(a, r) \in Payloads /\ Payload(a, r).time \in Nat
<1>1. history[a] \in Seq(Payloads)
  BY ChainsAssumption
<1>2. Payload(a, r) \in Payloads
  BY <1>1 DEF Payload, Newest
<1> QED
  BY <1>2 DEF Payloads

\* The times of the alerts of S are known.
Timed(E, S) == \A a \in S : V(E, a).time \in Nat

\* So are those of the alerts that are correlated or wait for it.
LEMMA TimesKnown ==
  ASSUME history \in Histories, NEW E, Holds(E)
  PROVE  Timed(E, E.placed \cup E.buffer) /\ E.placed \in SUBSET Alerts /\ E.buffer \in SUBSET Alerts
<1>1. E.placed \in SUBSET Alerts /\ E.buffer \in SUBSET Alerts
  BY DEF Holds, Engines
<1>2. \A a \in E.placed \cup E.buffer : E.copy[a] \in 1 .. Newest(a)
  BY DEF Holds
<1> QED
  BY <1>1, <1>2, PayloadIs DEF Timed, V

\* The neighbour of a neighbour: b is next to a on a timeline as a is to b.
LEMMA AdjacentBoth ==
  ASSUME NEW E, NEW L, NEW a \in L, NEW b \in Adjacent(E, a, L \ {a})
  PROVE  b \in L /\ a # b /\ a \in Adjacent(E, b, L \ {b})
<1>1. b \in L /\ a # b
  BY DEF Adjacent
<1>2. \A c \in L \ {a, b} : /\ ~(Precedes(E, a, c) /\ Precedes(E, c, b))
                            /\ ~(Precedes(E, c, a) /\ Precedes(E, b, c))
  BY DEF Adjacent
<1>3. V(E, a).time - V(E, b).time <= Window /\ V(E, b).time - V(E, a).time <= Window
  BY DEF Adjacent
<1>4. (L \ {b}) \ {a} = L \ {a, b}
  OBVIOUS
<1>5. a \in L \ {b}
  BY <1>1
<1> HIDE DEF Precedes, V
<1> QED
  BY <1>1, <1>2, <1>3, <1>4, <1>5 DEF Adjacent

\* Neighbours stay neighbours when others leave the timeline.
LEMMA AdjacentFewer ==
  ASSUME NEW E, NEW F, NEW a, NEW S, NEW T \in SUBSET S, NEW b \in Adjacent(E, a, S), b \in T,
         V(F, a) = V(E, a), \A c \in T : V(F, c) = V(E, c)
  PROVE  b \in Adjacent(F, a, T)
<1>1. \A c \in T \ {b} : c \in S \ {b}
  OBVIOUS
<1>2. \A c \in T : (Precedes(F, a, c) <=> Precedes(E, a, c)) /\ (Precedes(F, c, a) <=> Precedes(E, c, a))
  BY DEF Precedes
<1>3. \A c \in T : (Precedes(F, b, c) <=> Precedes(E, b, c)) /\ (Precedes(F, c, b) <=> Precedes(E, c, b))
  BY DEF Precedes
<1>4. /\ \A c \in S \ {b} : ~(Precedes(E, a, c) /\ Precedes(E, c, b))
      /\ \A c \in S \ {b} : ~(Precedes(E, c, a) /\ Precedes(E, b, c))
      /\ V(E, a).time - V(E, b).time <= Window
      /\ V(E, b).time - V(E, a).time <= Window
  BY DEF Adjacent
<1>5. /\ \A c \in T \ {b} : ~(Precedes(F, a, c) /\ Precedes(F, c, b))
      /\ \A c \in T \ {b} : ~(Precedes(F, c, a) /\ Precedes(F, b, c))
  BY <1>1, <1>2, <1>3, <1>4
<1>6. /\ V(F, a).time - V(F, b).time <= Window
      /\ V(F, b).time - V(F, a).time <= Window
  BY <1>4
<1> QED
  BY <1>5, <1>6 DEF Adjacent

\* The alert before all others of a set.
LEMMA FirstIs ==
  ASSUME NEW E, NEW S \in SUBSET Alerts, S # {}, Timed(E, S)
  PROVE  /\ First(E, S) \in S /\ Leads(E, First(E, S), S)
         /\ \A x \in Alerts : Leads(E, x, S) => x = First(E, S)
<1> DEFINE f == [a \in S |-> V(E, a).time]
           g == [a \in S |-> a]
<1>1. f \in [S -> Nat] /\ g \in [S -> Nat]
  BY ChainsAssumption DEF Timed
<1>2. PICK a \in S : FirstBy(S, f, g, g, a)
  BY <1>1, LeastByThree
<1>3. \A b \in S \ {a} : Precedes(E, a, b)
  <2>1. \A b \in S : f[a] < f[b] \/ (f[a] = f[b] /\ g[a] <= g[b])
    BY <1>1, <1>2 DEF FirstBy
  <2>2. \A b \in S : V(E, a).time < V(E, b).time \/ (V(E, a).time = V(E, b).time /\ a <= b)
    BY <2>1
  <2>3. \A b \in S \ {a} : a <= b => a < b
    BY ChainsAssumption
  <2> QED
    BY <2>2, <2>3 DEF Precedes
<1> DEFINE first == First(E, S)
<1>4. first \in S /\ \A b \in S \ {first} : Precedes(E, first, b)
  BY <1>3 DEF First
<1> HIDE DEF first
<1>5. ASSUME NEW x \in S, \A b \in S \ {x} : Precedes(E, x, b), x # first
      PROVE  FALSE
  <2>1. Precedes(E, x, first) /\ Precedes(E, first, x)
    BY <1>4, <1>5
  <2>2. V(E, x).time \in Nat /\ V(E, first).time \in Nat /\ x \in Nat /\ first \in Nat
    BY <1>4, ChainsAssumption DEF Timed
  <2> QED
    BY <2>1, <2>2 DEF Precedes
<1>6. \A x \in Alerts : Leads(E, x, S) => x = first
  BY <1>5 DEF Leads
<1>7. Leads(E, first, S)
  BY <1>4 DEF Leads
<1> QED
  BY <1>4, <1>6, <1>7 DEF first

----------------------------------------------------------------------------
\* _insert_alert.

\* An alert about to be inserted: on no timeline, its payload known.
Fresh(E, a) ==
  /\ a \in Alerts \ E.buffer /\ E.copy[a] \in 1 .. Newest(a)
  /\ \A l \in E.lines : l[2] # a

\* What an insertion changes, r being the resolution, and what it does not.
Insertion(E, a, r, I) ==
  /\ I \in [copy : {E.copy}, buffer : {E.buffer}, newest : {E.newest}, placed : {I.placed},
            res : {r.res}, about : {I.about}, primary : {I.primary}, lines : {I.lines},
            edges : {I.edges}, chains : {E.chains}, of : {E.of}, anchor : {E.anchor},
            count : {E.count}]
  /\ I.copy = E.copy /\ I.buffer = E.buffer /\ I.newest = E.newest /\ I.res = r.res
  /\ I.placed = E.placed \cup {a}
  /\ I.about = [E.about EXCEPT ![a] = r.entities]
  /\ I.primary = [E.primary EXCEPT ![a] = r.primary]
  /\ I.edges = E.edges \cup {{a, b} : b \in Links(E, a, r.entities)}
  /\ I.lines = E.lines \cup {<<e, a>> : e \in r.entities}
  /\ I.chains = E.chains /\ I.of = E.of /\ I.anchor = E.anchor /\ I.count = E.count

\* _insert_alert changes just these parts.
LEMMA InsertChanges ==
  ASSUME NEW E, Holds(E), NEW a, NEW r
  PROVE  Insertion(E, a, r, Inserted(E, a, r))
<1> DEFINE about == [E.about EXCEPT ![a] = r.entities]
           primary == [E.primary EXCEPT ![a] = r.primary]
           edges == E.edges \cup {{a, b} : b \in Links(E, a, r.entities)}
           lines == E.lines \cup {<<e, a>> : e \in r.entities}
           I == Inserted(E, a, r)
<1>1. I = [E EXCEPT !.res = r.res, !.about = about, !.primary = primary,
                    !.placed = E.placed \cup {a}, !.edges = edges, !.lines = lines]
  BY DEF Inserted
<1> HIDE DEF about, primary, edges, lines, I
<1>2. E \in Engines(E)
  BY DEF Holds
<1>3. /\ I \in [copy : {E.copy}, buffer : {E.buffer}, newest : {E.newest}, placed : {I.placed},
                res : {r.res}, about : {I.about}, primary : {I.primary}, lines : {I.lines},
                edges : {I.edges}, chains : {E.chains}, of : {E.of}, anchor : {E.anchor},
                count : {E.count}]
      /\ I.copy = E.copy /\ I.buffer = E.buffer /\ I.newest = E.newest /\ I.res = r.res
      /\ I.placed = E.placed \cup {a} /\ I.about = about /\ I.primary = primary
      /\ I.edges = edges /\ I.lines = lines
      /\ I.chains = E.chains /\ I.of = E.of /\ I.anchor = E.anchor /\ I.count = E.count
  BY <1>1, <1>2 DEF Engines
<1> QED
  BY <1>3 DEF Insertion, about, primary, edges, lines, I

\* The alerts an inserted one is linked with are correlated and not itself.
LEMMA LinksPlaced ==
  ASSUME NEW E, Holds(E), NEW a, NEW es
  PROVE  Links(E, a, es) \subseteq E.placed \ {a}
<1>1. ASSUME NEW e, NEW b \in Line(E, e)
      PROVE  b \in E.placed
  BY DEF Line, Holds
<1> QED
  BY <1>1 DEF Links, Adjacent

\* _insert_alert keeps the parts as they should be.
LEMMA InsertHolds ==
  ASSUME history \in Histories, NEW E, Holds(E), NEW a, Fresh(E, a)
  PROVE  /\ Holds(InsertAlert(E, a))
         /\ \E r : Insertion(E, a, r, InsertAlert(E, a)) /\ Resolved(E.res, V(E, a), r)
                   /\ r = Resolve(E.res, V(E, a))
<1> DEFINE r == Resolve(E.res, V(E, a))
           I == InsertAlert(E, a)
<1>1. V(E, a) \in Payloads /\ Resolving(E.res)
  BY PayloadIs DEF V, Fresh, Holds
<1>2. Resolved(E.res, V(E, a), r)
  BY <1>1, ResolveMade
<1>3. Insertion(E, a, r, I)
  BY InsertChanges DEF InsertAlert
<1> HIDE DEF r, I
<1>4. /\ Resolving(r.res) /\ Numbers(E.res) \subseteq Numbers(r.res)
      /\ r.entities \subseteq Numbers(r.res) /\ r.primary \in Numbers(r.res)
      /\ Numbers(r.res) \subseteq Nat
  BY <1>1, <1>2 DEF Resolved, Resolving, Parts, Numbers
<1>5. E \in Engines(E)
  BY DEF Holds
<1>6. I \in Engines(I)
  <2>1. /\ I.copy \in [Alerts -> Nat] /\ I.buffer \in SUBSET Alerts
        /\ I.chains = E.chains /\ I.of \in [Alerts -> IdSet] /\ I.anchor \in [Alerts -> IdSet]
    BY <1>3, <1>5 DEF Insertion, Engines
  <2>2. a \in Alerts /\ I.placed \in SUBSET Alerts
    BY <1>3, <1>5 DEF Insertion, Engines, Fresh
  <2>3. r.entities \in SUBSET Nat /\ r.primary \in Nat
    BY <1>4
  <2>4. I.about \in [Alerts -> SUBSET Nat] /\ I.primary \in [Alerts -> Nat]
    BY <1>3, <1>5, <2>2, <2>3 DEF Insertion, Engines
  <2>5. I.lines \in SUBSET (Nat \X Alerts)
    BY <1>3, <1>5, <2>2, <2>3 DEF Insertion, Engines
  <2>6. I.edges \in SUBSET SUBSET Alerts
    <3>1. Links(E, a, r.entities) \subseteq Alerts
      BY <1>5, LinksPlaced DEF Engines
    <3> QED
      BY <1>3, <1>5, <2>2, <3>1 DEF Insertion, Engines
  <2>7. I \in [copy : {I.copy}, buffer : {I.buffer}, newest : {I.newest}, placed : {I.placed},
               res : {I.res}, about : {I.about}, primary : {I.primary}, lines : {I.lines},
               edges : {I.edges}, chains : {I.chains}, of : {I.of}, anchor : {I.anchor},
               count : {I.count}]
    BY <1>3 DEF Insertion
  <2> QED
    BY <2>1, <2>2, <2>4, <2>5, <2>6, <2>7 DEF Engines
<1>7. Resolving(I.res) /\ I.res = r.res
  BY <1>3, <1>4 DEF Insertion
<1>8. /\ I.chains = E.chains /\ I.count = E.count /\ I.placed = E.placed \cup {a}
      /\ I.buffer = E.buffer /\ I.copy = E.copy
  BY <1>3 DEF Insertion
<1>9. I.placed \cap I.buffer = {} /\ \A b \in I.placed \cup I.buffer : I.copy[b] \in 1 .. Newest(b)
  BY <1>8 DEF Holds, Fresh
<1>10. \A b \in I.placed : I.primary[b] \in Numbers(I.res)
  <2>1. a \in Alerts /\ E.primary \in [Alerts -> Nat] /\ E.placed \in SUBSET Alerts
    BY <1>5 DEF Engines, Fresh
  <2>2. I.primary[a] = r.primary /\ \A b \in Alerts \ {a} : I.primary[b] = E.primary[b]
    BY <1>3, <2>1 DEF Insertion
  <2> QED
    BY <1>4, <1>7, <1>8, <2>1, <2>2 DEF Holds
<1>11. \A l \in I.lines : l[1] \in Numbers(I.res) /\ l[2] \in I.placed
  <2>1. I.lines = E.lines \cup {<<e, a>> : e \in r.entities}
    BY <1>3 DEF Insertion
  <2>2. \A l \in E.lines : l[1] \in Numbers(E.res) /\ l[2] \in E.placed
    BY DEF Holds
  <2> QED
    BY <1>4, <1>7, <1>8, <2>1, <2>2
<1>12. \A p \in I.edges : p \subseteq I.placed
  <2>1. I.edges = E.edges \cup {{a, b} : b \in Links(E, a, r.entities)}
    BY <1>3 DEF Insertion
  <2>2. \A p \in E.edges : p \subseteq E.placed
    BY DEF Holds
  <2> QED
    BY <1>8, <2>1, <2>2, LinksPlaced
<1>13. Holds(I)
  BY <1>6, <1>7, <1>8, <1>9, <1>10, <1>11, <1>12 DEF Holds
<1> QED
  BY <1>2, <1>3, <1>13 DEF r, I

\* Connections stay when an alert is inserted.
LEMMA InsertConnects ==
  ASSUME NEW E, NEW I, NEW a, NEW r, Insertion(E, a, r, I), NEW b \in E.placed
  PROVE  Connected(E, b) \subseteq Connected(I, b)
<1>1. E.placed \subseteq I.placed /\ E.edges \subseteq I.edges
  BY DEF Insertion
<1> QED
  BY <1>1, ComponentGrows DEF Connected

\* An inserted alert is to be grouped.
LEMMA InsertGroups ==
  ASSUME NEW E, Holds(E), NEW I, NEW a, NEW r, Insertion(E, a, r, I), Holds(I),
         NEW T, Assigned(E, T), Covered(E, T), a \in E.placed \/ E.of[a] = NoId
  PROVE  Assigned(I, T \cup {a}) /\ Covered(I, T \cup {a})
<1>1. /\ I.of = E.of /\ I.chains = E.chains /\ I.placed = E.placed \cup {a}
      /\ I.edges = E.edges \cup {{a, b} : b \in Links(E, a, r.entities)}
  BY DEF Insertion
<1>2. LiveIds(I) = LiveIds(E) /\ NoId \notin LiveIds(E)
  BY <1>1 DEF LiveIds, Holds
<1>3. Assigned(I, T \cup {a})
  <2>1. \A b \in Alerts \ I.placed : I.of[b] = NoId
    BY <1>1 DEF Assigned
  <2>2. \A b \in I.placed : I.of[b] \in LiveIds(I) \/ (I.of[b] = NoId /\ b \in T \cup {a})
    BY <1>1, <1>2 DEF Assigned
  <2>3. ASSUME NEW c \in LiveIds(I)
        PROVE  I.chains[c].members = {b \in I.placed : I.of[b] = c}
    <3>1. E.chains[c].members = {b \in E.placed : E.of[b] = c}
      BY <1>2, <2>3 DEF Assigned
    <3>2. c # NoId
      BY <1>2, <2>3
    <3>3. a \in E.placed \/ E.of[a] # c
      BY <3>2
    <3> QED
      BY <1>1, <3>1, <3>3
  <2> QED
    BY <2>1, <2>2, <2>3 DEF Assigned
<1>4. ASSUME NEW p \in I.edges, NEW b \in p, NEW d \in p
      PROVE  I.of[b] = I.of[d] \/ Connected(I, b) \cap (T \cup {a}) # {}
  <2>1. p \subseteq I.placed
    BY <1>4 DEF Holds
  <2>2. CASE p \in E.edges
    <3>1. p \subseteq E.placed
      BY <2>2 DEF Holds
    <3>2. E.of[b] = E.of[d] \/ Connected(E, b) \cap T # {}
      BY <1>4, <2>2 DEF Covered
    <3>3. Connected(E, b) \subseteq Connected(I, b)
      BY <1>4, <3>1, InsertConnects
    <3> QED
      BY <1>1, <3>2, <3>3
  <2>3. CASE a \in p
    <3>1. a \in Connected(I, b)
      BY <1>4, <2>1, <2>3, EdgeConnects DEF Connected
    <3> QED
      BY <3>1
  <2> QED
    BY <1>1, <1>4, <2>2, <2>3
<1> QED
  BY <1>3, <1>4 DEF Covered

\* The timelines after an insertion, and the payloads.
LEMMA InsertLines ==
  ASSUME NEW E, NEW I, NEW a, NEW r, Insertion(E, a, r, I), Fresh(E, a), NEW e
  PROVE  /\ Line(I, e) \ {a} = Line(E, e) /\ a \notin Line(E, e)
         /\ a \in Line(I, e) => e \in r.entities
         /\ e \in r.entities => Line(I, e) = Line(E, e) \cup {a}
         /\ \A b : V(I, b) = V(E, b)
<1>1. I.lines = E.lines \cup {<<d, a>> : d \in r.entities} /\ I.copy = E.copy
  BY DEF Insertion
<1>2. \A l \in E.lines : l[2] # a
  BY DEF Fresh
<1>3. /\ Line(E, e) \subseteq Line(I, e) /\ Line(I, e) \subseteq Line(E, e) \cup {a}
      /\ a \in Line(I, e) => e \in r.entities
      /\ e \in r.entities => a \in Line(I, e)
  <2>1. Line(E, e) \subseteq Line(I, e)
    BY <1>1 DEF Line
  <2>2. ASSUME NEW b \in Line(I, e)
        PROVE  b \in Line(E, e) \/ (b = a /\ e \in r.entities)
    <3>1. PICK l \in I.lines : l[1] = e /\ l[2] = b
      BY DEF Line
    <3>2. CASE l \in E.lines
      BY <3>1, <3>2 DEF Line
    <3>3. CASE l \in {<<d, a>> : d \in r.entities}
      BY <3>1, <3>3
    <3> QED
      BY <1>1, <3>2, <3>3
  <2>3. a \notin Line(E, e)
    BY <1>2 DEF Line
  <2>4. e \in r.entities => a \in Line(I, e)
    <3>1. e \in r.entities => <<e, a>> \in I.lines
      BY <1>1
    <3> QED
      BY <3>1 DEF Line
  <2> QED
    BY <2>1, <2>2, <2>3, <2>4
<1>4. a \notin Line(E, e)
  BY <1>2 DEF Line
<1>5. \A b : V(I, b) = V(E, b)
  BY <1>1 DEF V
<1> QED
  BY <1>3, <1>4, <1>5

\* Neighbours are connected after an insertion if they were before.
LEMMA InsertNear ==
  ASSUME NEW E, Holds(E), NEW I, NEW a, NEW r, Insertion(E, a, r, I), Holds(I), Fresh(E, a),
         Near(E)
  PROVE  Near(I)
<1>1. SUFFICES ASSUME NEW e \in Nat, NEW x \in Line(I, e),
                      NEW b \in Adjacent(I, x, Line(I, e) \ {x})
               PROVE  b \in Connected(I, x)
  BY DEF Near
<1>2. /\ I.placed = E.placed \cup {a}
      /\ I.edges = E.edges \cup {{a, y} : y \in Links(E, a, r.entities)}
      /\ \A p \in I.edges : p \subseteq I.placed
  BY DEF Insertion, Holds
<1>3. /\ Line(I, e) \ {a} = Line(E, e) /\ a \notin Line(E, e)
      /\ a \in Line(I, e) => e \in r.entities
      /\ \A y : V(I, y) = V(E, y)
  BY InsertLines
<1>4. b \in Line(I, e) /\ x # b /\ x \in Adjacent(I, b, Line(I, e) \ {b})
  BY AdjacentBoth
\* Whoever is next to a is linked with it.
<1>5. ASSUME NEW y, y \in Adjacent(I, a, Line(I, e) \ {a}), a \in Line(I, e)
      PROVE  {a, y} \in I.edges
  <2>1. y \in Adjacent(I, a, Line(E, e) \ {a}) /\ Line(E, e) \ {a} = Line(E, e)
    BY <1>3, <1>5
  <2>2. y \in Line(E, e) \ {a}
    BY <2>1 DEF Adjacent
  <2> DEFINE S == Line(E, e) \ {a}
  <2>3. V(E, a) = V(I, a) /\ \A c \in S : V(E, c) = V(I, c)
    BY <1>3
  <2>4. y \in Adjacent(I, a, S) /\ y \in S /\ S \in SUBSET S
    BY <2>1, <2>2
  <2> HIDE DEF S
  <2>5. y \in Adjacent(E, a, S)
    BY <2>3, <2>4, AdjacentFewer
  <2>6. y \in Links(E, a, r.entities)
    BY <1>3, <1>5, <2>5 DEF Links, S
  <2> QED
    BY <1>2, <2>6
<1>6. CASE x = a
  <2>1. {a, b} \in I.edges
    BY <1>5, <1>6, <1>1
  <2> QED
    BY <1>2, <1>6, <2>1, EdgeConnects DEF Connected
<1>7. CASE b = a
  <2>1. {a, x} \in I.edges
    BY <1>4, <1>5, <1>7
  <2> QED
    BY <1>2, <1>7, <2>1, EdgeConnects DEF Connected
<1>8. CASE x # a /\ b # a
  <2>1. x \in Line(E, e) /\ b \in Line(E, e) \ {x}
    BY <1>3, <1>4, <1>8
  <2> DEFINE S == Line(I, e) \ {x}
             T == Line(E, e) \ {x}
  <2>2. T \in SUBSET S /\ b \in T /\ b \in Adjacent(I, x, S)
    BY <1>3, <2>1
  <2>3. V(E, x) = V(I, x) /\ \A c \in T : V(E, c) = V(I, c)
    BY <1>3
  <2> HIDE DEF S, T
  <2>4. b \in Adjacent(E, x, T)
    BY <2>2, <2>3, AdjacentFewer
  <2>5. b \in Connected(E, x)
    BY <2>1, <2>4 DEF Near, T
  <2>6. x \in E.placed
    BY <2>1 DEF Line, Holds
  <2> QED
    BY <2>5, <2>6, InsertConnects
<1> QED
  BY <1>6, <1>7, <1>8

----------------------------------------------------------------------------
\* _assign_cluster.

\* The name of a chain is a rank.
LEMMA NameIs ==
  ASSUME NEW E, Holds(E), NEW S \in SUBSET E.placed, S # {}
  PROVE  NameOf(E, S) \in Nat
<1> DEFINE es == {E.primary[a] : a \in S}
           Votes(e) == Cardinality({a \in S : E.primary[a] = e})
           Wins(e, d) == \/ Votes(d) < Votes(e)
                         \/ Votes(d) = Votes(e) /\ Older(E.res, e, d)
           f == [e \in es |-> Cardinality(S) - Votes(e)]
           g == [e \in es |-> E.res.entity[e].first]
           h == [e \in es |-> e]
<1>1. es \subseteq Numbers(E.res) /\ es # {} /\ Numbers(E.res) \subseteq Nat
  BY DEF Holds, Resolving, Parts, Numbers
<1>2. IsFiniteSet(S) /\ Cardinality(S) \in Nat
  <2>1. S \subseteq Alerts /\ IsFiniteSet(Alerts)
    BY ChainsAssumption DEF Holds, Engines
  <2> QED
    BY <2>1, FS_Subset, FS_CardinalityType
<1>3. \A e : Votes(e) \in Nat /\ Votes(e) <= Cardinality(S)
  <2>1. \A e : {a \in S : E.primary[a] = e} \subseteq S
    OBVIOUS
  <2> QED
    BY <1>2, <2>1, FS_Subset, FS_CardinalityType
<1>4. \A e \in es : E.res.entity[e].first \in Nat
  BY <1>1 DEF Holds, Resolving, Parts
<1> HIDE DEF es, Votes
<1>5. f \in [es -> Nat] /\ g \in [es -> Nat] /\ h \in [es -> Nat]
  BY <1>1, <1>2, <1>3, <1>4
<1>6. PICK e \in es : FirstBy(es, f, g, h, e)
  BY <1>1, <1>5, LeastByThree
<1>7. ASSUME NEW d \in es
      PROVE  Wins(e, d)
  <2>1. \/ f[e] < f[d]
        \/ f[e] = f[d] /\ g[e] < g[d]
        \/ f[e] = f[d] /\ g[e] = g[d] /\ h[e] <= h[d]
    BY <1>6 DEF FirstBy
  <2>2. f[e] = Cardinality(S) - Votes(e) /\ f[d] = Cardinality(S) - Votes(d)
    OBVIOUS
  <2>3. (f[e] < f[d] => Votes(d) < Votes(e)) /\ (f[e] = f[d] => Votes(d) = Votes(e))
    BY <1>2, <1>3, <2>2
  <2>4. /\ g[e] < g[d] => Older(E.res, e, d)
        /\ g[e] = g[d] /\ h[e] <= h[d] => Older(E.res, e, d)
    BY DEF Older
  <2> QED
    BY <2>1, <2>3, <2>4
<1> DEFINE winner == CHOOSE x \in es : \A d \in es : Wins(x, d)
<1>8. winner \in es
  <2> HIDE DEF Wins
  <2> QED
    BY <1>6, <1>7
<1>9. NameOf(E, S) = Name(E.res, winner)
  BY DEF NameOf, es, Votes
<1> HIDE DEF winner
<1>10. winner \in Numbers(E.res)
  BY <1>1, <1>8
<1>11. Name(E.res, winner) \in Nat
  <2>1. E.res.entity[winner].ids \subseteq Ids /\ Display \in [Ids -> Nat]
    BY <1>10, EntitiesAssumption DEF Holds, Resolving, Parts
  <2> DEFINE N == {Display[i] : i \in E.res.entity[winner].ids}
  <2>2. N \in SUBSET Nat
    BY <2>1
  <2>3. E.res.entity[winner].ids # {} => Least(N) \in N
    BY <2>2, LeastIs
  <2> QED
    BY <2>2, <2>3 DEF Name
<1> QED
  BY <1>9, <1>11

\* The earliest of several chains.
LEMMA KeeperIs ==
  ASSUME NEW E, Holds(E), NEW ids \in SUBSET DOMAIN E.chains, ids # {}, ids \subseteq IdSet
  PROVE  Keeper(E, ids) \in ids
<1> DEFINE f == [c \in ids |-> E.chains[c].first]
           g == [c \in ids |-> c[1]]
           h == [c \in ids |-> c[2]]
<1>1. \A c \in ids : E.chains[c].first \in Nat
  BY DEF Holds, IsChain
<1>2. \A c \in ids : c[1] \in Nat /\ c[2] \in Nat /\ c = <<c[1], c[2]>>
  BY DEF IdSet
<1>3. f \in [ids -> Nat] /\ g \in [ids -> Nat] /\ h \in [ids -> Nat]
  BY <1>1, <1>2
<1>4. PICK c \in ids : FirstBy(ids, f, g, h, c)
  BY <1>3, LeastByThree
<1>5. ASSUME NEW d \in ids \ {c}
      PROVE  \/ E.chains[c].first < E.chains[d].first
             \/ E.chains[c].first = E.chains[d].first /\ IdBefore(c, d)
  <2>1. \/ f[c] < f[d]
        \/ f[c] = f[d] /\ g[c] < g[d]
        \/ f[c] = f[d] /\ g[c] = g[d] /\ h[c] <= h[d]
    BY <1>4 DEF FirstBy
  <2>2. c[1] # d[1] \/ c[2] # d[2]
    BY <1>2, <1>5
  <2>3. c[1] = d[1] /\ c[2] <= d[2] => c[2] < d[2]
    BY <1>2, <2>2
  <2> QED
    BY <2>1, <2>3 DEF IdBefore
<1> QED
  BY <1>4, <1>5 DEF Keeper

\* J is E once c is the id of anchor.
Issuing(E, anchor, J, c) ==
  /\ J \in [copy : {E.copy}, buffer : {E.buffer}, newest : {E.newest}, placed : {E.placed},
            res : {E.res}, about : {E.about}, primary : {E.primary}, lines : {E.lines},
            edges : {E.edges}, chains : {E.chains}, of : {E.of}, anchor : {J.anchor},
            count : {J.count}]
  /\ Holds(J)
  /\ Issued(J, c) /\ \A d : Issued(E, d) => Issued(J, d)
  /\ J.anchor[anchor] = c /\ \A b \in Alerts \ {anchor} : J.anchor[b] = E.anchor[b]
  /\ IF E.anchor[anchor] # NoId THEN c = E.anchor[anchor] ELSE ~Issued(E, c)

\* An anchor gets one id, which no other has.
LEMMA IssueMade ==
  ASSUME NEW E, Holds(E), NEW name \in Nat, NEW anchor \in Alerts,
         E.anchor[anchor] # NoId => Issued(E, E.anchor[anchor])
  PROVE  Issuing(E, anchor, Issue(E, name, anchor), NextId(E, name, anchor))
<1> DEFINE J == Issue(E, name, anchor)
           c == NextId(E, name, anchor)
<1>1. E \in Engines(E) /\ DOMAIN E.count \subseteq Nat /\ E.count \in [DOMAIN E.count -> Nat]
  BY DEF Holds
<1>2. CASE E.anchor[anchor] # NoId
  <2>1. J = E /\ c = E.anchor[anchor]
    BY <1>2 DEF Issue, NextId
  <2> HIDE DEF J, c
  <2>2. J \in [copy : {E.copy}, buffer : {E.buffer}, newest : {E.newest}, placed : {E.placed},
               res : {E.res}, about : {E.about}, primary : {E.primary}, lines : {E.lines},
               edges : {E.edges}, chains : {E.chains}, of : {E.of}, anchor : {J.anchor},
               count : {J.count}]
    BY <1>1, <2>1 DEF Engines
  <2>3. Issuing(E, anchor, J, c)
    BY <1>2, <2>1, <2>2 DEF Issuing
  <2> QED
    BY <2>3 DEF J, c
<1>3. CASE E.anchor[anchor] = NoId
  <2> DEFINE n == CountOf(E, name) + 1
             count == With(E.count, name, n)
             anchors == [E.anchor EXCEPT ![anchor] = c]
  <2>1. CountOf(E, name) \in Nat /\ n \in Nat \ {0}
    BY <1>1 DEF CountOf
  <2>2. c = <<name, n>>
    BY <1>3 DEF NextId
  <2>3. J = [E EXCEPT !.anchor = anchors, !.count = count]
    BY <1>3 DEF Issue
  <2>4. /\ DOMAIN count = DOMAIN E.count \cup {name} /\ count \in [DOMAIN count -> Nat]
        /\ count[name] = n /\ \A m \in DOMAIN E.count \ {name} : count[m] = E.count[m]
    BY <1>1, <2>1 DEF With
  <2>5. c \in IdSet
    BY <2>1, <2>2 DEF IdSet
  <2>6. /\ anchors \in [Alerts -> IdSet]
        /\ anchors[anchor] = c /\ \A b \in Alerts \ {anchor} : anchors[b] = E.anchor[b]
    BY <1>1, <2>5 DEF Engines
  <2>7. \A d : Issued(E, d) /\ d[1] = name => d[2] \in 1 .. CountOf(E, name)
    BY DEF Issued, CountOf
  <2> HIDE DEF J, c, count, anchors, n
  <2>8. /\ J \in [copy : {E.copy}, buffer : {E.buffer}, newest : {E.newest}, placed : {E.placed},
                  res : {E.res}, about : {E.about}, primary : {E.primary}, lines : {E.lines},
                  edges : {E.edges}, chains : {E.chains}, of : {E.of}, anchor : {anchors},
                  count : {count}]
        /\ J.anchor = anchors /\ J.count = count
    BY <1>1, <2>3 DEF Engines
  <2>9. /\ J.copy = E.copy /\ J.buffer = E.buffer /\ J.placed = E.placed /\ J.res = E.res
        /\ J.about = E.about /\ J.primary = E.primary /\ J.lines = E.lines /\ J.edges = E.edges
        /\ J.chains = E.chains /\ J.of = E.of /\ J.newest = E.newest
    BY <2>8
  <2>10. Holds(J)
    <3>1. J \in Engines(J)
      BY <1>1, <2>6, <2>8, <2>9 DEF Engines
    <3> QED
      BY <2>1, <2>4, <2>8, <2>9, <3>1 DEF Holds
  <2>11. Issued(J, c)
    <3>1. c[1] = name /\ c[2] = n
      BY <2>2
    <3> QED
      BY <2>1, <2>4, <2>5, <2>8, <3>1 DEF Issued
  <2>12. ASSUME NEW d, Issued(E, d)
         PROVE  Issued(J, d)
    <3>1. d \in IdSet /\ d[1] \in DOMAIN J.count
      BY <2>4, <2>8, <2>12 DEF Issued
    <3>2. CASE d[1] = name
      <4>1. d[2] \in 1 .. n
        BY <2>1, <2>7, <2>12, <3>2 DEF n
      <4> QED
        BY <2>4, <2>8, <3>1, <3>2, <4>1 DEF Issued
    <3>3. CASE d[1] # name
      <4>1. J.count[d[1]] = E.count[d[1]]
        BY <2>4, <2>8, <2>12, <3>3 DEF Issued
      <4> QED
        BY <2>12, <3>1, <4>1 DEF Issued
    <3> QED
      BY <3>2, <3>3
  <2>13. ~Issued(E, c)
    <3>1. c[1] = name /\ c[2] = n
      BY <2>2
    <3>2. n \notin 1 .. CountOf(E, name)
      BY <2>1 DEF n
    <3> QED
      BY <2>7, <3>1, <3>2
  <2>14. Issuing(E, anchor, J, c)
    BY <1>3, <2>6, <2>8, <2>10, <2>11, <2>12, <2>13 DEF Issuing
  <2> QED
    BY <2>14 DEF J, c
<1> QED
  BY <1>2, <1>3

\* P is J with the chain c of S, into which the losers have merged.
PlacedAs(J, S, c, losers, P) ==
  /\ P \in [copy : {J.copy}, buffer : {J.buffer}, newest : {J.newest}, placed : {J.placed},
            res : {J.res}, about : {J.about}, primary : {J.primary}, lines : {J.lines},
            edges : {J.edges}, chains : {P.chains}, of : {P.of}, anchor : {J.anchor},
            count : {J.count}]
  /\ P.of = [a \in Alerts |-> IF a \in S THEN c ELSE J.of[a]]
  /\ DOMAIN P.chains = DOMAIN J.chains \cup {c}
  /\ P.chains = [d \in DOMAIN P.chains |-> P.chains[d]]
  /\ IsChain(P.chains[c]) /\ P.chains[c].members = S /\ P.chains[c].merged = NoId
  /\ \A d \in losers : IsChain(P.chains[d]) /\ P.chains[d].merged = c
  /\ \A d \in DOMAIN J.chains \ (losers \cup {c}) : P.chains[d] = J.chains[d]

\* _assign_cluster: the chain of S is there and its losers are merged into it.
LEMMA PlaceMade ==
  ASSUME NEW J, Holds(J), NEW S \in SUBSET Alerts, S # {}, Timed(J, S), NEW c \in IdSet, NEW old,
         IsChain(old), old.merged = NoId, NEW losers \in SUBSET (DOMAIN J.chains \ {c})
  PROVE  PlacedAs(J, S, c, losers, Place(J, S, c, old, losers))
<1> DEFINE P == Place(J, S, c, old, losers)
           new == Chain(J, S, old, Tactics(J, S))
           before == [d \in DOMAIN J.chains |->
                        IF d \in losers THEN [J.chains[d] EXCEPT !.merged = c] ELSE J.chains[d]]
           chains == With(before, c, new)
           of == [a \in Alerts |-> IF a \in S THEN c ELSE J.of[a]]
<1>1. P = [J EXCEPT !.chains = chains, !.of = of]
  BY DEF Place
<1>2. IsChain(new) /\ new.members = S /\ new.merged = NoId
  <2> DEFINE t == V(J, First(J, S)).time
             es == UNION {J.about[a] : a \in S}
             n == NameOf(J, S)
             q == Tactics(J, S)
             d == Disposition(q)
  <2>1. t \in Nat
    BY FirstIs DEF Timed
  <2>2. new = [old EXCEPT !.members = S, !.entities = es, !.name = n, !.first = t,
                          !.tactics = q, !.disposition = d]
    BY DEF Chain
  <2> HIDE DEF t, es, n, q, d, new
  <2>3. /\ new \in [members : {S}, entities : {es}, name : {n}, first : {t}, tactics : {q},
                    disposition : {d}, merged : {old.merged}, risk : {old.risk},
                    surfaced : {old.surfaced}]
        /\ new.members = S /\ new.merged = old.merged /\ new.entities = es /\ new.name = n
        /\ new.tactics = q /\ new.disposition = d /\ new.risk = old.risk
        /\ new.surfaced = old.surfaced
    BY <2>2 DEF IsChain
  <2>4. old.merged \in IdSet
    BY DEF IsChain
  <2> QED
    BY <2>1, <2>3, <2>4 DEF IsChain
<1> HIDE DEF new
<1>3. /\ DOMAIN chains = DOMAIN J.chains \cup {c} /\ chains[c] = new
      /\ chains = [d \in DOMAIN chains |-> chains[d]]
      /\ \A d \in DOMAIN J.chains \ {c} : chains[d] = before[d]
  BY DEF With
<1>4. ASSUME NEW d \in losers
      PROVE  IsChain(chains[d]) /\ chains[d].merged = c
  <2>1. chains[d] = [J.chains[d] EXCEPT !.merged = c]
    BY <1>3
  <2>2. IsChain(J.chains[d])
    BY DEF Holds
  <2> HIDE DEF chains
  <2> DEFINE x == chains[d]
             y == J.chains[d]
  <2> HIDE DEF x, y
  <2>3. x = [y EXCEPT !.merged = c] /\ IsChain(y)
    BY <2>1, <2>2 DEF x, y
  <2>4. /\ x \in [members : {y.members}, entities : {y.entities}, name : {y.name},
                  first : {y.first}, tactics : {y.tactics}, disposition : {y.disposition},
                  merged : {c}, risk : {y.risk}, surfaced : {y.surfaced}]
        /\ x.merged = c /\ x.entities = y.entities /\ x.name = y.name /\ x.tactics = y.tactics
        /\ x.disposition = y.disposition /\ x.risk = y.risk /\ x.surfaced = y.surfaced
    BY <2>3 DEF IsChain
  <2>5. y.members \in SUBSET Alerts /\ y.first \in Nat
    BY <2>3 DEF IsChain
  <2>6. IsChain(x) /\ x.merged = c
    BY <2>4, <2>5 DEF IsChain
  <2> QED
    BY <2>6 DEF x
<1>5. \A d \in DOMAIN J.chains \ (losers \cup {c}) : chains[d] = J.chains[d]
  BY <1>3
<1> HIDE DEF P, chains, of
<1>6. /\ P \in [copy : {J.copy}, buffer : {J.buffer}, newest : {J.newest}, placed : {J.placed},
                res : {J.res}, about : {J.about}, primary : {J.primary}, lines : {J.lines},
                edges : {J.edges}, chains : {P.chains}, of : {P.of}, anchor : {J.anchor},
                count : {J.count}]
      /\ P.chains = chains /\ P.of = of
  <2>1. J \in Engines(J)
    BY DEF Holds
  <2> QED
    BY <1>1, <2>1 DEF Engines
<1> QED
  BY <1>2, <1>3, <1>4, <1>5, <1>6 DEF PlacedAs, P, of

\* J and c are what the alerts S of E are placed with: the chains of E and an
\* id that is one of theirs or of no live chain, of an anchor in S.
Prepared(E, S, live, J, c) ==
  /\ Holds(J)
  /\ J \in [copy : {E.copy}, buffer : {E.buffer}, newest : {E.newest}, placed : {E.placed},
            res : {E.res}, about : {E.about}, primary : {E.primary}, lines : {E.lines},
            edges : {E.edges}, chains : {E.chains}, of : {E.of}, anchor : {J.anchor},
            count : {J.count}]
  /\ c \in live \/ (live = {} /\ c \notin LiveIds(E))
  /\ \A d \in DOMAIN E.chains \cup {c} : Issued(J, d)
  /\ \A x \in Alerts : J.anchor[x] # NoId => Issued(J, J.anchor[x])
  /\ \A x, y \in Alerts : J.anchor[x] = J.anchor[y] /\ J.anchor[x] # NoId => x = y
  /\ \E x \in S : J.anchor[x] = c
  /\ c \in LiveIds(E) \/ \A x \in Alerts : Leads(E, x, S) => J.anchor[x] = c
  /\ \A d \in LiveIds(E) : \E x \in E.chains[d].members : J.anchor[x] = d
  /\ \A x \in Alerts : E.anchor[x] # NoId => J.anchor[x] = E.anchor[x]

\* The live chains of the alerts of S, and the alerts of those.
LiveOf(E, S) == {E.of[a] : a \in S} \cap LiveIds(E)

\* The chains of connected alerts are inside what is connected.
LEMMA LiveWithin ==
  ASSUME NEW E, Holds(E), NEW T, Grouped(E, T), NEW a \in E.placed
  PROVE  /\ \A b \in E.placed : E.of[b] \in LiveOf(E, Connected(E, a)) => b \in Connected(E, a)
         /\ \A d \in LiveOf(E, Connected(E, a)) : E.chains[d].members \subseteq Connected(E, a)
<1> DEFINE S == Connected(E, a)
<1>1. ASSUME NEW b \in E.placed, E.of[b] \in LiveOf(E, S)
      PROVE  b \in S
  <2>1. PICK z \in S : E.of[z] = E.of[b]
    BY <1>1 DEF LiveOf
  <2>2. E.of[b] # NoId
    BY <1>1 DEF LiveOf, LiveIds, Holds
  <2>3. z \in E.placed /\ Connected(E, z) = S
    BY <2>1, ComponentSame DEF Connected
  <2>4. b \in Connected(E, z)
    BY <2>1, <2>2, <2>3 DEF Grouped, Joined
  <2> QED
    BY <2>3, <2>4
<1>2. ASSUME NEW d \in LiveOf(E, S)
      PROVE  E.chains[d].members \subseteq S
  <2>1. E.chains[d].members = {b \in E.placed : E.of[b] = d}
    BY <1>2 DEF LiveOf, Grouped, Assigned
  <2> QED
    BY <1>1, <1>2, <2>1
<1> QED
  BY <1>1, <1>2

\* Alerts without a live chain are given a new one.
LEMMA FoundPrepared ==
  ASSUME history \in Histories, NEW E, Holds(E), IdsHeld(E), NEW T, Grouped(E, T),
         NEW S \in SUBSET E.placed, S # {},
         NEW name \in Nat, NEW anchor \in S, \A x \in Alerts : Leads(E, x, S) => x = anchor,
         LiveOf(E, S) = {},
         \A x \in S : E.of[x] \in LiveIds(E) \/ E.of[x] = NoId,
         NEW J, NEW c, Issuing(E, anchor, J, c)
  PROVE  Prepared(E, S, {}, J, c)
<1>1. /\ Issued(J, c) /\ \A d : Issued(E, d) => Issued(J, d)
      /\ J.anchor[anchor] = c /\ \A b \in Alerts \ {anchor} : J.anchor[b] = E.anchor[b]
      /\ E.anchor[anchor] # NoId => c = E.anchor[anchor]
      /\ E.anchor[anchor] = NoId => ~Issued(E, c)
  BY DEF Issuing
<1>2. anchor \in Alerts /\ S \subseteq Alerts
  BY DEF Holds, Engines
<1>3. c \notin LiveIds(E)
  <2>1. CASE E.anchor[anchor] = NoId
    BY <1>1, <2>1 DEF IdsHeld, LiveIds
  \* The live chain with the id of an anchor has the anchor.
  <2>2. CASE E.anchor[anchor] # NoId /\ c \in LiveIds(E)
    <3>1. PICK x \in E.chains[c].members : E.anchor[x] = c
      BY <2>2 DEF IdsHeld
    <3>2. x \in Alerts
      BY <2>2, <3>1 DEF Holds, LiveIds, IsChain
    <3>3. x = anchor
      BY <1>1, <1>2, <2>2, <3>1, <3>2 DEF IdsHeld
    <3>4. E.of[anchor] = c
      BY <2>2, <3>1, <3>3 DEF Grouped, Assigned
    <3> QED
      BY <2>2, <3>4 DEF LiveOf
  <2> QED
    BY <2>1, <2>2
<1>4. \A x \in Alerts : E.anchor[x] # NoId => J.anchor[x] = E.anchor[x]
  BY <1>1
<1>5. \A x \in Alerts : J.anchor[x] # NoId => Issued(J, J.anchor[x])
  BY <1>1 DEF IdsHeld
<1>6. \A x \in Alerts : E.anchor[x] = c /\ c # NoId => x = anchor
  BY <1>1, <1>2 DEF IdsHeld
<1>7. \A x, y \in Alerts : J.anchor[x] = J.anchor[y] /\ J.anchor[x] # NoId => x = y
  <2>1. \A x \in Alerts : J.anchor[x] = c /\ c # NoId => x = anchor
    BY <1>1, <1>6
  <2>2. \A x, y \in Alerts : x # anchor /\ y # anchor /\ J.anchor[x] = J.anchor[y]
          /\ J.anchor[x] # NoId => x = y
    BY <1>1 DEF IdsHeld
  <2> QED
    BY <1>1, <2>1, <2>2
<1>8. \A d \in LiveIds(E) : \E x \in E.chains[d].members : J.anchor[x] = d
  <2>1. ASSUME NEW d \in LiveIds(E)
        PROVE  \E x \in E.chains[d].members : J.anchor[x] = d
    <3>1. PICK x \in E.chains[d].members : E.anchor[x] = d
      BY <2>1 DEF IdsHeld
    <3>2. x \in Alerts /\ d # NoId
      BY <2>1, <3>1 DEF Holds, LiveIds, IsChain
    <3> QED
      BY <1>4, <3>1, <3>2
  <2> QED
    BY <2>1
<1>9. \A d \in DOMAIN E.chains \cup {c} : Issued(J, d)
  BY <1>1 DEF IdsHeld
<1>10. Holds(J)
      /\ J \in [copy : {E.copy}, buffer : {E.buffer}, newest : {E.newest}, placed : {E.placed},
                res : {E.res}, about : {E.about}, primary : {E.primary}, lines : {E.lines},
                edges : {E.edges}, chains : {E.chains}, of : {E.of}, anchor : {J.anchor},
                count : {J.count}]
  BY DEF Issuing
<1>11. \E x \in S : J.anchor[x] = c
  BY <1>1
<1>12. \A x \in Alerts : Leads(E, x, S) => J.anchor[x] = c
  BY <1>1
<1> QED
  BY <1>3, <1>4, <1>5, <1>7, <1>8, <1>9, <1>10, <1>11, <1>12 DEF Prepared

\* Alerts with live chains are given one of those.
LEMMA JoinPrepared ==
  ASSUME NEW E, Holds(E), IdsHeld(E), NEW T, Grouped(E, T), NEW a \in E.placed,
         NEW c \in LiveOf(E, Connected(E, a))
  PROVE  Prepared(E, Connected(E, a), LiveOf(E, Connected(E, a)), E, c)
<1> DEFINE S == Connected(E, a)
<1>1. c \in LiveIds(E) /\ LiveIds(E) \subseteq DOMAIN E.chains
  BY DEF LiveOf, LiveIds
<1>2. E.chains[c].members \subseteq S
  BY LiveWithin
<1>3. \E x \in S : E.anchor[x] = c
  BY <1>1, <1>2 DEF IdsHeld
<1>4. \A d \in DOMAIN E.chains \cup {c} : Issued(E, d)
  BY <1>1 DEF IdsHeld
<1>5. E \in [copy : {E.copy}, buffer : {E.buffer}, newest : {E.newest}, placed : {E.placed},
             res : {E.res}, about : {E.about}, primary : {E.primary}, lines : {E.lines},
             edges : {E.edges}, chains : {E.chains}, of : {E.of}, anchor : {E.anchor},
             count : {E.count}]
  BY DEF Holds, Engines
<1> QED
  BY <1>1, <1>3, <1>4, <1>5 DEF Prepared, IdsHeld

\* J, c and the losers with which Assign places S.
LEMMA AssignPlaces ==
  ASSUME history \in Histories, NEW E, Holds(E), IdsHeld(E), NEW T, Grouped(E, T),
         NEW a \in E.placed
  PROVE  \E J, c : /\ Prepared(E, Connected(E, a), LiveOf(E, Connected(E, a)), J, c)
                   /\ PlacedAs(J, Connected(E, a), c, LiveOf(E, Connected(E, a)) \ {c},
                              Assign(E, Connected(E, a)))
<1> DEFINE S == Connected(E, a)
           live == LiveOf(E, S)
<1>1. S \in SUBSET E.placed /\ a \in S /\ S \in SUBSET Alerts /\ S # {}
  BY ComponentLeast DEF Connected, Holds, Engines
<1>2. Timed(E, S)
  BY <1>1, TimesKnown DEF Timed
<1>3. Assign(E, S) = IF live = {} THEN Found(E, S, NameOf(E, S), First(E, S))
                     ELSE Join(E, S, Keeper(E, live), live)
  BY DEF Assign, LiveOf
<1>4. live \subseteq LiveIds(E) /\ LiveIds(E) \subseteq DOMAIN E.chains
  BY DEF LiveOf, LiveIds
<1> HIDE DEF S, live
<1>5. CASE live = {}
  <2> DEFINE name == NameOf(E, S)
             anchor == First(E, S)
             J == Issue(E, name, anchor)
             c == NextId(E, name, anchor)
  <2>1. name \in Nat /\ anchor \in S /\ \A x \in Alerts : Leads(E, x, S) => x = anchor
    BY <1>1, <1>2, NameIs, FirstIs
  <2>2. E.anchor[anchor] # NoId => Issued(E, E.anchor[anchor])
    BY <1>1, <2>1 DEF IdsHeld
  <2> HIDE DEF name, anchor
  <2>3. Issuing(E, anchor, J, c)
    BY <1>1, <2>1, <2>2, IssueMade
  <2>4. Assign(E, S) = Place(J, S, c, NewChain, {})
    BY <1>3, <1>5 DEF Found, name, anchor
  <2> HIDE DEF J, c
  <2>5. \A x \in S : E.of[x] \in LiveIds(E) \/ E.of[x] = NoId
    BY <1>1 DEF Grouped, Assigned
  <2>6. Prepared(E, S, {}, J, c)
    BY <1>1, <1>5, <2>1, <2>3, <2>5, FoundPrepared DEF live
  <2>7. Holds(J) /\ c \in IdSet
    BY <2>3 DEF Issuing, Issued
  <2>8. Timed(J, S)
    <3>1. J.copy = E.copy
      BY <2>3 DEF Issuing
    <3> QED
      BY <1>2, <3>1 DEF Timed, V
  <2>9. IsChain(NewChain) /\ NewChain.merged = NoId
    BY DEF NewChain, IsChain, IdSet, NoId
  <2>10. PlacedAs(J, S, c, {}, Assign(E, S))
    BY <1>1, <2>4, <2>7, <2>8, <2>9, PlaceMade
  <2>11. live \ {c} = {}
    BY <1>5
  <2> QED
    BY <1>5, <2>6, <2>10, <2>11 DEF S, live
<1>6. CASE live # {}
  <2> DEFINE c == Keeper(E, live)
  <2>1. live \subseteq IdSet
    BY <1>4 DEF IdsHeld, Issued
  <2>2. c \in live
    BY <1>4, <1>6, <2>1, KeeperIs
  <2>3. Assign(E, S) = Place(E, S, c, E.chains[c], live \ {c})
    BY <1>3, <1>6 DEF Join
  <2> HIDE DEF c
  <2>4. IsChain(E.chains[c]) /\ E.chains[c].merged = NoId
    BY <1>4, <2>2 DEF Holds, LiveIds
  <2>5. live \ {c} \in SUBSET (DOMAIN E.chains \ {c})
    BY <1>4
  <2>6. PlacedAs(E, S, c, live \ {c}, Assign(E, S))
    BY <1>1, <1>2, <2>1, <2>2, <2>3, <2>4, <2>5, PlaceMade
  <2>7. Prepared(E, S, live, E, c)
    BY <2>2, JoinPrepared DEF S, live
  <2> QED
    BY <2>6, <2>7 DEF S, live
<1> QED
  BY <1>5, <1>6

\* P has the alerts, timelines and links of E.
SameGraph(E, P) ==
  /\ P.copy = E.copy /\ P.buffer = E.buffer /\ P.newest = E.newest /\ P.placed = E.placed
  /\ P.res = E.res /\ P.about = E.about /\ P.primary = E.primary /\ P.lines = E.lines
  /\ P.edges = E.edges

\* A whole chain that has the id of its first alert; those that are new are
\* such, and those that were stay so.
Whole(E, d) == BearsId(E, d) /\ \E a \in E.placed : E.chains[d].members = Connected(E, a)
Founded(E, F) ==
  /\ \A d \in LiveIds(F) \ LiveIds(E) : Whole(F, d)
  /\ \A d \in LiveIds(F) \cap LiveIds(E) : Whole(E, d) => Whole(F, d)

\* What becomes of E when its alerts are grouped but for those of T.
Regrouped(E, T, P) ==
  /\ SameGraph(E, P) /\ Holds(P) /\ IdsHeld(P) /\ Grouped(P, T)
  /\ Keeps(E, P) /\ Founded(E, P)

\* The fields and the live chains of what is placed.
PlacedIs(E, S, live, J, c, P) ==
  /\ SameGraph(E, P) /\ P.anchor = J.anchor /\ P.count = J.count
  /\ J.chains = E.chains /\ J.of = E.of
  /\ P.of = [x \in Alerts |-> IF x \in S THEN c ELSE E.of[x]]
  /\ DOMAIN P.chains = DOMAIN E.chains \cup {c}
  /\ c # NoId /\ c \in LiveIds(P) /\ LiveIds(P) = (LiveIds(E) \ live) \cup {c}
  /\ P.chains[c].members = S
  /\ \A d \in LiveIds(P) \ {c} : P.chains[d] = E.chains[d]

\* The live chains after it: those that S had are gone, c is there.
LEMMA PlacedParts ==
  ASSUME NEW E, NEW S, NEW live \in SUBSET LiveIds(E), NEW J, NEW c, Prepared(E, S, live, J, c),
         NEW P, PlacedAs(J, S, c, live \ {c}, P)
  PROVE  PlacedIs(E, S, live, J, c, P)
<1>1. SameGraph(E, P) /\ P.anchor = J.anchor /\ P.count = J.count
      /\ J.chains = E.chains /\ J.of = E.of
  BY DEF Prepared, PlacedAs, SameGraph
<1>2. /\ P.of = [x \in Alerts |-> IF x \in S THEN c ELSE E.of[x]]
      /\ DOMAIN P.chains = DOMAIN E.chains \cup {c}
      /\ P.chains[c].members = S /\ P.chains[c].merged = NoId
  BY <1>1 DEF PlacedAs
<1>3. /\ \A d \in live \ {c} : P.chains[d].merged = c
      /\ \A d \in DOMAIN E.chains \ ((live \ {c}) \cup {c}) : P.chains[d] = E.chains[d]
  BY <1>1 DEF PlacedAs
<1>4. c # NoId
  BY DEF Prepared, Issued, NoId
<1>5. c \in live \/ c \notin LiveIds(E)
  BY DEF Prepared
<1>6. \A d \in LiveIds(P) : d = c \/ (d \in LiveIds(E) \ live /\ P.chains[d] = E.chains[d])
  <2>1. ASSUME NEW d \in LiveIds(P), d # c
        PROVE  d \in LiveIds(E) \ live /\ P.chains[d] = E.chains[d]
    <3>1. d \in DOMAIN E.chains /\ P.chains[d].merged = NoId
      BY <1>2, <2>1 DEF LiveIds
    <3>2. d \notin live
      BY <1>3, <1>4, <2>1, <3>1
    <3> QED
      BY <1>3, <2>1, <3>1, <3>2 DEF LiveIds
  <2> QED
    BY <2>1
<1>7. \A d \in LiveIds(E) \ live : d \in LiveIds(P)
  <2>1. ASSUME NEW d \in LiveIds(E) \ live
        PROVE  d \in LiveIds(P)
    <3>1. d \in DOMAIN E.chains /\ d # c /\ E.chains[d].merged = NoId
      BY <1>5, <2>1 DEF LiveIds
    <3>2. P.chains[d] = E.chains[d] /\ d \in DOMAIN P.chains
      BY <1>2, <1>3, <2>1, <3>1
    <3> QED
      BY <3>1, <3>2 DEF LiveIds
  <2> QED
    BY <2>1
<1>8. c \in LiveIds(P)
  BY <1>2 DEF LiveIds
<1>9. LiveIds(P) = (LiveIds(E) \ live) \cup {c}
  BY <1>6, <1>7, <1>8
<1> QED
  BY <1>1, <1>2, <1>4, <1>6, <1>8, <1>9 DEF PlacedIs

\* The parts stay as they should be.
LEMMA PlacedHolds ==
  ASSUME NEW E, Holds(E), NEW S \in SUBSET E.placed, NEW live \in SUBSET LiveIds(E), NEW J, NEW c,
         Prepared(E, S, live, J, c), NEW P, PlacedAs(J, S, c, live \ {c}, P)
  PROVE  Holds(P)
<1>1. /\ Holds(J) /\ J \in Engines(J) /\ J.placed = E.placed /\ J.chains = E.chains
  BY DEF Prepared, Holds
<1>2. c \in IdSet /\ c # NoId
  BY DEF Prepared, Issued, NoId
<1>3. P \in [copy : {J.copy}, buffer : {J.buffer}, newest : {J.newest}, placed : {J.placed},
             res : {J.res}, about : {J.about}, primary : {J.primary}, lines : {J.lines},
             edges : {J.edges}, chains : {P.chains}, of : {P.of}, anchor : {J.anchor},
             count : {J.count}]
  BY DEF PlacedAs
<1>4. /\ P.copy = J.copy /\ P.buffer = J.buffer /\ P.newest = J.newest /\ P.placed = J.placed
      /\ P.res = J.res /\ P.about = J.about /\ P.primary = J.primary /\ P.lines = J.lines
      /\ P.edges = J.edges /\ P.anchor = J.anchor /\ P.count = J.count
  BY <1>3
<1>5. P.of \in [Alerts -> IdSet]
  BY <1>1, <1>2 DEF PlacedAs, Engines
<1>6. P \in Engines(P)
  BY <1>1, <1>3, <1>4, <1>5 DEF Engines
<1>7. DOMAIN P.chains = DOMAIN J.chains \cup {c} /\ P.chains = [d \in DOMAIN P.chains |-> P.chains[d]]
  BY DEF PlacedAs
<1>8. \A d \in DOMAIN P.chains : IsChain(P.chains[d])
  <2>1. \A d \in DOMAIN J.chains : IsChain(J.chains[d])
    BY <1>1 DEF Holds
  <2> QED
    BY <1>7, <2>1 DEF PlacedAs
<1>9. NoId \notin DOMAIN P.chains
  BY <1>1, <1>2, <1>7 DEF Holds
<1> QED
  BY <1>1, <1>4, <1>6, <1>7, <1>8, <1>9 DEF Holds

\* Ids stay of one anchor each, and chains grow.
LEMMA PlacedIds ==
  ASSUME NEW E, Holds(E), NEW T, Grouped(E, T), NEW a \in E.placed, NEW J, NEW c,
         Prepared(E, Connected(E, a), LiveOf(E, Connected(E, a)), J, c),
         NEW P, PlacedAs(J, Connected(E, a), c, LiveOf(E, Connected(E, a)) \ {c}, P)
  PROVE  IdsHeld(P) /\ Keeps(E, P)
<1> DEFINE S == Connected(E, a)
           live == LiveOf(E, S)
<1>1. S \in SUBSET E.placed /\ S \in SUBSET Alerts /\ live \in SUBSET LiveIds(E)
  BY ComponentLeast DEF Connected, Holds, Engines, LiveOf
<1>2. /\ \A b \in E.placed : E.of[b] \in live => b \in S
      /\ \A d \in live : E.chains[d].members \subseteq S
  BY LiveWithin
<1>3. Prepared(E, S, live, J, c) /\ PlacedAs(J, S, c, live \ {c}, P)
  OBVIOUS
<1> HIDE DEF S, live
<1>4. /\ P.anchor = J.anchor /\ P.count = J.count
      /\ P.of = [x \in Alerts |-> IF x \in S THEN c ELSE E.of[x]]
      /\ DOMAIN P.chains = DOMAIN E.chains \cup {c}
      /\ c # NoId /\ c \in LiveIds(P) /\ LiveIds(P) = (LiveIds(E) \ live) \cup {c}
      /\ P.chains[c].members = S
      /\ \A d \in LiveIds(P) \ {c} : P.chains[d] = E.chains[d]
  <2>1. PlacedIs(E, S, live, J, c, P)
    BY <1>1, <1>3, PlacedParts
  <2> QED
    BY <2>1 DEF PlacedIs
<1>5. \A d : Issued(J, d) => Issued(P, d)
  BY <1>4 DEF Issued
<1>6. /\ \A d \in DOMAIN P.chains : Issued(P, d)
      /\ \A x \in Alerts : P.anchor[x] # NoId => Issued(P, P.anchor[x])
      /\ \A x, y \in Alerts : P.anchor[x] = P.anchor[y] /\ P.anchor[x] # NoId => x = y
  BY <1>3, <1>4, <1>5 DEF Prepared
<1>7. ASSUME NEW d \in LiveIds(P)
      PROVE  \E x \in P.chains[d].members : P.anchor[x] = d
  <2>1. CASE d = c
    BY <1>3, <1>4, <2>1 DEF Prepared
  <2>2. CASE d # c
    <3>1. d \in LiveIds(E) /\ P.chains[d] = E.chains[d]
      BY <1>4, <1>7, <2>2
    <3> QED
      BY <1>3, <1>4, <3>1 DEF Prepared
  <2> QED
    BY <2>1, <2>2
<1>8. IdsHeld(P)
  BY <1>6, <1>7 DEF IdsHeld
<1>9. ASSUME NEW d \in LiveIds(E)
       PROVE  \E k \in LiveIds(P) : E.chains[d].members \subseteq P.chains[k].members
  <2>1. CASE d \in live
    BY <1>2, <1>4, <2>1
  <2>2. CASE d \notin live
    <3>1. d \in LiveIds(P)
      BY <1>4, <2>2
    <3>2. CASE d = c
      <4>1. c \notin LiveIds(E)
        BY <1>3, <2>2, <3>2 DEF Prepared
      <4> QED
        BY <3>2, <4>1
    <3>3. CASE d # c
      BY <1>4, <3>1, <3>3
    <3> QED
      BY <3>2, <3>3
  <2> QED
    BY <2>1, <2>2
<1>10. \A x \in Alerts : E.anchor[x] # NoId => P.anchor[x] = E.anchor[x]
  BY <1>3, <1>4 DEF Prepared
<1> QED
  BY <1>8, <1>9, <1>10 DEF Keeps

\* The alerts of S are grouped, no others are disturbed.
LEMMA PlacedGroups ==
  ASSUME NEW E, Holds(E), NEW T, Grouped(E, T), NEW a \in E.placed, NEW J, NEW c,
         Prepared(E, Connected(E, a), LiveOf(E, Connected(E, a)), J, c),
         NEW P, PlacedAs(J, Connected(E, a), c, LiveOf(E, Connected(E, a)) \ {c}, P)
  PROVE  Grouped(P, T \ {a})
<1> DEFINE S == Connected(E, a)
           live == LiveOf(E, S)
<1>1. S \in SUBSET E.placed /\ S \in SUBSET Alerts /\ live \in SUBSET LiveIds(E) /\ a \in S
  BY ComponentLeast DEF Connected, Holds, Engines, LiveOf
<1>2. /\ \A b \in E.placed : E.of[b] \in live => b \in S
      /\ \A d \in live : E.chains[d].members \subseteq S
  BY LiveWithin
<1>3. Prepared(E, S, live, J, c) /\ PlacedAs(J, S, c, live \ {c}, P)
  OBVIOUS
<1>4. \A b \in S : Connected(E, b) = S
  BY ComponentSame DEF Connected
<1>5. E.placed \in SUBSET Alerts
  BY DEF Holds, Engines
<1> HIDE DEF S, live
<1>6. /\ P.placed = E.placed /\ P.edges = E.edges
      /\ P.of = [x \in Alerts |-> IF x \in S THEN c ELSE E.of[x]]
      /\ DOMAIN P.chains = DOMAIN E.chains \cup {c}
      /\ c # NoId /\ c \in LiveIds(P) /\ LiveIds(P) = (LiveIds(E) \ live) \cup {c}
      /\ P.chains[c].members = S
      /\ \A d \in LiveIds(P) \ {c} : P.chains[d] = E.chains[d]
  <2>1. PlacedIs(E, S, live, J, c, P)
    BY <1>1, <1>3, PlacedParts
  <2> QED
    BY <2>1 DEF PlacedIs, SameGraph
<1>7. \A b : Connected(P, b) = Connected(E, b)
  BY <1>6 DEF Connected
<1>8. \A b \in E.placed : /\ b \in S => P.of[b] = c
                          /\ b \notin S => P.of[b] = E.of[b] /\ E.of[b] \notin live
  BY <1>2, <1>5, <1>6
<1>9. \A b \in E.placed \ S : P.of[b] # c
  <2>1. ASSUME NEW b \in E.placed \ S, E.of[b] = c
        PROVE  FALSE
    <3>1. c \in LiveIds(E)
      BY <1>6, <2>1 DEF Grouped, Assigned
    <3>2. c \in live
      BY <1>3, <3>1 DEF Prepared
    <3> QED
      BY <1>2, <2>1, <3>2
  <2> QED
    BY <1>8, <2>1
<1>10. Assigned(P, T \ {a})
  <2>1. \A b \in Alerts \ P.placed : P.of[b] = NoId
    BY <1>1, <1>6 DEF Grouped, Assigned
  <2>2. ASSUME NEW b \in P.placed
        PROVE  P.of[b] \in LiveIds(P) \/ (P.of[b] = NoId /\ b \in T \ {a})
    <3>1. CASE b \in S
      BY <1>6, <1>8, <2>2, <3>1
    <3>2. CASE b \notin S
      <4>1. b \in E.placed /\ P.of[b] = E.of[b] /\ E.of[b] \notin live /\ b # a
        BY <1>1, <1>6, <1>8, <2>2, <3>2
      <4>2. E.of[b] \in LiveIds(E) \/ (E.of[b] = NoId /\ b \in T)
        BY <4>1 DEF Grouped, Assigned
      <4> QED
        BY <1>6, <4>1, <4>2
    <3> QED
      BY <3>1, <3>2
  <2>3. ASSUME NEW d \in LiveIds(P)
        PROVE  P.chains[d].members = {b \in P.placed : P.of[b] = d}
    <3>1. CASE d = c
      BY <1>1, <1>6, <1>8, <1>9, <3>1
    <3>2. CASE d # c
      <4>1. d \in LiveIds(E) \ live /\ P.chains[d] = E.chains[d]
        BY <1>6, <2>3, <3>2
      <4>2. E.chains[d].members = {b \in E.placed : E.of[b] = d}
        BY <4>1 DEF Grouped, Assigned
      <4>3. \A b \in S : E.of[b] # d
        BY <4>1 DEF live, LiveOf
      <4> QED
        BY <1>6, <1>8, <3>2, <4>1, <4>2, <4>3
    <3> QED
      BY <3>1, <3>2
  <2> QED
    BY <2>1, <2>2, <2>3 DEF Assigned
<1>11. ASSUME NEW b \in P.placed, NEW d \in P.placed, P.of[b] = P.of[d], P.of[b] # NoId
       PROVE  d \in Connected(P, b)
  <2>1. CASE b \in S
    BY <1>4, <1>6, <1>7, <1>8, <1>9, <1>11, <2>1
  <2>2. CASE b \notin S
    <3>1. d \notin S
      BY <1>6, <1>8, <1>9, <1>11, <2>2
    <3>2. E.of[b] = E.of[d] /\ E.of[b] # NoId /\ b \in E.placed /\ d \in E.placed
      BY <1>6, <1>8, <1>11, <2>2, <3>1
    <3> QED
      BY <1>7, <3>2 DEF Grouped, Joined
  <2> QED
    BY <2>1, <2>2
<1>12. ASSUME NEW p \in P.edges, NEW b \in p, NEW d \in p
       PROVE  P.of[b] = P.of[d] \/ Connected(P, b) \cap (T \ {a}) # {}
  <2>1. p \in E.edges /\ p \subseteq E.placed
    BY <1>6 DEF Holds
  <2>2. Connected(E, b) = Connected(E, d) /\ b \in Connected(E, b) /\ d \in Connected(E, d)
    <3>1. d \in Connected(E, b)
      BY <2>1, EdgeConnects DEF Connected
    <3> QED
      BY <2>1, <3>1, ComponentSame, ComponentLeast DEF Connected
  <2>3. CASE b \in S
    BY <1>4, <1>8, <2>1, <2>2, <2>3
  <2>4. CASE b \notin S
    <3>1. d \notin S
      BY <1>4, <2>2, <2>4
    <3>2. a \notin Connected(E, b)
      <4>1. a \in Connected(E, b) => Connected(E, a) = Connected(E, b)
        BY <2>1, ComponentSame DEF Connected
      <4> QED
        BY <2>2, <2>4, <4>1 DEF S
    <3>3. E.of[b] = E.of[d] \/ Connected(E, b) \cap T # {}
      BY <2>1 DEF Grouped, Covered
    <3> QED
      BY <1>7, <1>8, <2>1, <2>4, <3>1, <3>2, <3>3
  <2> QED
    BY <2>3, <2>4
<1> QED
  BY <1>10, <1>11, <1>12 DEF Grouped, Joined, Covered

\* A new chain has the id of its first alert, a chain that is whole stays so.
LEMMA PlacedFounds ==
  ASSUME NEW E, Holds(E), IdsHeld(E), NEW T, Grouped(E, T), NEW a \in E.placed, NEW J, NEW c,
         Prepared(E, Connected(E, a), LiveOf(E, Connected(E, a)), J, c),
         NEW P, PlacedAs(J, Connected(E, a), c, LiveOf(E, Connected(E, a)) \ {c}, P)
  PROVE  Founded(E, P)
<1> DEFINE S == Connected(E, a)
           live == LiveOf(E, S)
<1>1. S \in SUBSET E.placed /\ S \in SUBSET Alerts /\ live \in SUBSET LiveIds(E)
  BY ComponentLeast DEF Connected, Holds, Engines, LiveOf
<1>2. \A d \in live : E.chains[d].members \subseteq S
  BY LiveWithin
<1>3. Prepared(E, S, live, J, c) /\ PlacedAs(J, S, c, live \ {c}, P)
  OBVIOUS
<1>4. \A b \in S : Connected(E, b) = S
  BY ComponentSame DEF Connected
<1>5. \A b \in E.placed : b \in Connected(E, b)
  BY ComponentLeast DEF Connected
<1>6. PlacedIs(E, S, live, J, c, P)
  BY <1>1, <1>3, PlacedParts
<1>7. Connected(P, a) = S
  BY <1>6 DEF PlacedIs, SameGraph, Connected
<1>8. S = Connected(E, a)
  OBVIOUS
<1> HIDE DEF S, live
<1>9. /\ P.anchor = J.anchor /\ P.placed = E.placed
      /\ DOMAIN P.chains = DOMAIN E.chains \cup {c}
      /\ LiveIds(P) = (LiveIds(E) \ live) \cup {c} /\ P.chains[c].members = S
      /\ \A d \in LiveIds(P) \ {c} : P.chains[d] = E.chains[d]
  BY <1>6 DEF PlacedIs, SameGraph
<1>10. /\ \A x, L : Leads(P, x, L) <=> Leads(E, x, L)
       /\ \A x : Connected(P, x) = Connected(E, x)
  <2>1. \A x, y : Precedes(P, x, y) <=> Precedes(E, x, y)
    BY <1>6 DEF PlacedIs, SameGraph, Precedes, V
  <2> QED
    BY <1>6, <2>1 DEF PlacedIs, SameGraph, Leads, Connected
<1>11. NoId \notin LiveIds(E)
  BY DEF LiveIds, Holds
<1>12. ASSUME NEW d \in LiveIds(P) \ LiveIds(E)
       PROVE  Whole(P, d)
  <2>1. d = c /\ c \notin LiveIds(E)
    BY <1>9
  <2>2. \A x \in Alerts : Leads(P, x, S) => P.anchor[x] = c
    BY <1>3, <1>9, <1>10, <2>1 DEF Prepared
  <2>3. BearsId(P, d)
    BY <1>9, <2>1, <2>2 DEF BearsId
  <2> QED
    BY <1>7, <1>9, <2>1, <2>3 DEF Whole
<1>13. ASSUME NEW d \in LiveIds(P), d \in LiveIds(E), Whole(E, d)
       PROVE  Whole(P, d)
  <2>1. PICK b \in E.placed : E.chains[d].members = Connected(E, b)
    BY <1>13 DEF Whole
  <2>2. P.chains[d].members = E.chains[d].members
    <3>1. CASE d = c
      <4>1. c \in live
        BY <1>3, <1>13, <3>1 DEF Prepared
      <4>2. b \in S
        BY <1>2, <1>5, <2>1, <3>1, <4>1
      <4> QED
        BY <1>4, <1>9, <2>1, <3>1, <4>2
    <3>2. CASE d # c
      BY <1>9, <1>13, <3>2
    <3> QED
      BY <3>1, <3>2
  <2>3. \A x \in Alerts : E.anchor[x] = d => P.anchor[x] = d
    BY <1>3, <1>9, <1>11, <1>13 DEF Prepared
  <2>4. BearsId(P, d)
    BY <1>10, <1>13, <2>2, <2>3 DEF Whole, BearsId
  <2>5. P.chains[d].members = Connected(P, b) /\ b \in P.placed
    BY <1>9, <1>10, <2>1, <2>2
  <2> QED
    BY <2>4, <2>5 DEF Whole
<1> QED
  BY <1>12, <1>13 DEF Founded

\* _assign_cluster: what a is connected with becomes one chain.
LEMMA AssignMade ==
  ASSUME history \in Histories, NEW E, Holds(E), IdsHeld(E), NEW T, Grouped(E, T),
         NEW a \in E.placed
  PROVE  Regrouped(E, T \ {a}, Assign(E, Connected(E, a)))
<1> DEFINE S == Connected(E, a)
           P == Assign(E, S)
<1>1. PICK J, c : Prepared(E, S, LiveOf(E, S), J, c) /\ PlacedAs(J, S, c, LiveOf(E, S) \ {c}, P)
  BY AssignPlaces
<1> HIDE DEF P
<1>2. S \in SUBSET E.placed /\ LiveOf(E, S) \in SUBSET LiveIds(E)
  BY DEF Connected, Component, LiveOf
<1>3. Grouped(P, T \ {a})
  BY <1>1, PlacedGroups
<1>4. IdsHeld(P) /\ Keeps(E, P) /\ Founded(E, P)
  BY <1>1, PlacedIds, PlacedFounds
<1> HIDE DEF S
<1>5. SameGraph(E, P)
  BY <1>1, <1>2, PlacedParts DEF PlacedIs
<1>6. Holds(P)
  BY <1>1, <1>2, PlacedHolds
<1>7. Regrouped(E, T \ {a}, P)
  BY <1>3, <1>4, <1>5, <1>6 DEF Regrouped
<1> QED
  BY <1>7 DEF P, S

\* Chains grow through several steps.
LEMMA KeepsOn ==
  ASSUME NEW E, NEW F, NEW G, Keeps(E, F), Keeps(F, G)
  PROVE  Keeps(E, G)
<1>1. ASSUME NEW c \in LiveIds(E)
      PROVE  \E d \in LiveIds(G) : E.chains[c].members \subseteq G.chains[d].members
  <2>1. PICK k \in LiveIds(F) : E.chains[c].members \subseteq F.chains[k].members
    BY DEF Keeps
  <2>2. PICK d \in LiveIds(G) : F.chains[k].members \subseteq G.chains[d].members
    BY DEF Keeps
  <2> QED
    BY <2>1, <2>2
<1>2. \A a \in Alerts : E.anchor[a] # NoId => G.anchor[a] = E.anchor[a]
  BY DEF Keeps
<1> QED
  BY <1>1, <1>2 DEF Keeps

\* It grows when the chains and the anchors are the same.
LEMMA GrewSame ==
  ASSUME NEW E, NEW F, F.chains = E.chains, F.anchor = E.anchor
  PROVE  Grew(E, F)
BY DEF Grew, Keeps, LiveIds

\* It grows from what had the same chains and anchors.
LEMMA GrewAfter ==
  ASSUME NEW E, NEW F, F.chains = E.chains, F.anchor = E.anchor, NEW G, Grew(F, G)
  PROVE  Grew(E, G)
BY DEF Grew, Keeps, LiveIds

\* Regrouping lets chains grow.
LEMMA RegroupedGrew ==
  ASSUME NEW E, NEW T, NEW F, Regrouped(E, T, F)
  PROVE  Grew(E, F)
BY DEF Regrouped, Grew, Founded, Whole

\* One regrouping after another is a regrouping.
LEMMA RegroupedOn ==
  ASSUME NEW E, NEW T, NEW F, Regrouped(E, T, F), NEW U, NEW G, Regrouped(F, U, G)
  PROVE  Regrouped(E, U, G)
<1>1. SameGraph(E, F) /\ SameGraph(F, G) => SameGraph(E, G)
  BY DEF SameGraph
<1>2. Keeps(E, F) /\ Keeps(F, G) /\ Founded(E, F) /\ Founded(F, G)
  BY DEF Regrouped
<1>3. Keeps(E, G)
  BY <1>2, KeepsOn
<1>4. Founded(E, G)
  <2>1. ASSUME NEW d \in LiveIds(G) \ LiveIds(E)
        PROVE  Whole(G, d)
    BY <1>2, <2>1 DEF Founded
  <2>2. ASSUME NEW d \in LiveIds(G), d \in LiveIds(E), Whole(E, d)
        PROVE  Whole(G, d)
    BY <1>2, <2>2 DEF Founded
  <2> QED
    BY <2>1, <2>2 DEF Founded
<1> QED
  BY <1>1, <1>3, <1>4 DEF Regrouped

\* Grouping leaves the timelines as they are.
LEMMA SameNear ==
  ASSUME NEW E, NEW P, SameGraph(E, P), Near(E)
  PROVE  Near(P)
<1>1. /\ \A e : Line(P, e) = Line(E, e)
      /\ \A a : V(P, a) = V(E, a)
      /\ \A a : Connected(P, a) = Connected(E, a)
  BY DEF SameGraph, Line, V, Connected
<1>2. ASSUME NEW e \in Nat, NEW a \in Line(P, e), NEW b \in Adjacent(P, a, Line(P, e) \ {a})
      PROVE  b \in Connected(P, a)
  <2> DEFINE S == Line(E, e) \ {a}
  <2>1. b \in Adjacent(P, a, S) /\ b \in S /\ S \in SUBSET S
    BY <1>1, <1>2 DEF Adjacent
  <2>2. V(E, a) = V(P, a) /\ \A c \in S : V(E, c) = V(P, c)
    BY <1>1
  <2> HIDE DEF S
  <2>3. b \in Adjacent(E, a, S)
    BY <2>1, <2>2, AdjacentFewer
  <2>4. b \in Connected(E, a)
    BY <1>1, <1>2, <2>3 DEF Near, S
  <2> QED
    BY <1>1, <2>4
<1> QED
  BY <1>2 DEF Near

----------------------------------------------------------------------------
\* rescore.

\* P is E with other risks.
Rescored(E, P) ==
  /\ P \in [copy : {E.copy}, buffer : {E.buffer}, newest : {E.newest}, placed : {E.placed},
            res : {E.res}, about : {E.about}, primary : {E.primary}, lines : {E.lines},
            edges : {E.edges}, chains : {P.chains}, of : {E.of}, anchor : {E.anchor},
            count : {E.count}]
  /\ DOMAIN P.chains = DOMAIN E.chains /\ P.chains = [c \in DOMAIN P.chains |-> P.chains[c]]
  /\ \A c \in DOMAIN E.chains :
       IsChain(P.chains[c]) /\ P.chains[c].members = E.chains[c].members
       /\ P.chains[c].merged = E.chains[c].merged

\* rescore changes risks and nothing that the invariant is about.
LEMMA RescoreIs ==
  ASSUME NEW E, Holds(E)
  PROVE  Rescored(E, Rescore(E))
<1> DEFINE chains == [c \in DOMAIN E.chains |->
                        IF c \in LiveIds(E) THEN Scored(E.chains[c], Risk(E, E.chains[c]))
                        ELSE E.chains[c]]
           P == Rescore(E)
<1>1. P = [E EXCEPT !.chains = chains]
  BY DEF Rescore
<1>2. ASSUME NEW c \in DOMAIN E.chains
      PROVE  /\ IsChain(chains[c]) /\ chains[c].members = E.chains[c].members
             /\ chains[c].merged = E.chains[c].merged
  <2> DEFINE k == E.chains[c]
             r == Risk(E, k)
             s == Surfaced(k, r)
             n == Scored(k, r)
  <2>1. IsChain(k)
    BY DEF Holds
  <2>2. n = [k EXCEPT !.risk = r, !.surfaced = s]
    BY DEF Scored
  <2>3. chains[c] = n \/ chains[c] = k
    OBVIOUS
  <2> HIDE DEF n, s, r, k, chains
  <2>4. /\ n \in [members : {k.members}, entities : {k.entities}, name : {k.name},
                  first : {k.first}, tactics : {k.tactics}, disposition : {k.disposition},
                  merged : {k.merged}, risk : {r}, surfaced : {s}]
        /\ n.members = k.members /\ n.entities = k.entities /\ n.name = k.name
        /\ n.tactics = k.tactics /\ n.disposition = k.disposition /\ n.merged = k.merged
        /\ n.risk = r /\ n.surfaced = s
    BY <2>1, <2>2 DEF IsChain
  <2>5. k.members \in SUBSET Alerts /\ k.first \in Nat /\ k.merged \in IdSet
    BY <2>1 DEF IsChain
  <2>6. IsChain(n) /\ n.members = k.members /\ n.merged = k.merged
    BY <2>4, <2>5 DEF IsChain
  <2>7. /\ IsChain(chains[c]) /\ chains[c].members = k.members
        /\ chains[c].merged = k.merged
    BY <2>1, <2>3, <2>6
  <2> QED
    BY <2>7 DEF k
<1>3. DOMAIN chains = DOMAIN E.chains /\ chains = [c \in DOMAIN chains |-> chains[c]]
  OBVIOUS
<1> HIDE DEF chains, P
<1>4. /\ P \in [copy : {E.copy}, buffer : {E.buffer}, newest : {E.newest}, placed : {E.placed},
                res : {E.res}, about : {E.about}, primary : {E.primary}, lines : {E.lines},
                edges : {E.edges}, chains : {P.chains}, of : {E.of}, anchor : {E.anchor},
                count : {E.count}]
      /\ P.chains = chains
  <2>1. E \in Engines(E)
    BY DEF Holds
  <2> QED
    BY <1>1, <2>1 DEF Engines
<1> QED
  BY <1>2, <1>3, <1>4 DEF Rescored, P

\* New risks leave the chains as they are.
LEMMA RescoreMade ==
  ASSUME NEW E, Holds(E), IdsHeld(E), NEW T, Grouped(E, T)
  PROVE  Regrouped(E, T, Rescore(E))
<1> DEFINE P == Rescore(E)
<1>1. Rescored(E, P)
  BY RescoreIs
<1> HIDE DEF P
<1>2. SameGraph(E, P) /\ P.of = E.of /\ P.anchor = E.anchor /\ P.count = E.count
  BY <1>1 DEF Rescored, SameGraph
<1>3. /\ DOMAIN P.chains = DOMAIN E.chains /\ LiveIds(P) = LiveIds(E)
      /\ \A c \in LiveIds(E) : P.chains[c].members = E.chains[c].members
  BY <1>1 DEF Rescored, LiveIds
<1>4. Holds(P)
  <2>1. E \in Engines(E)
    BY DEF Holds
  <2>2. P \in Engines(P)
    BY <1>1, <1>2, <2>1 DEF Rescored, Engines, SameGraph
  <2> QED
    BY <1>1, <1>2, <1>3, <2>2 DEF Holds, Rescored, SameGraph
<1>5. IdsHeld(P)
  BY <1>2, <1>3 DEF IdsHeld, Issued
<1>6. Grouped(P, T)
  <2>1. P.placed = E.placed /\ P.edges = E.edges
    BY <1>2 DEF SameGraph
  <2>2. \A a : Connected(P, a) = Connected(E, a)
    BY <2>1 DEF Connected
  <2>3. Assigned(P, T)
    BY <1>2, <1>3, <2>1 DEF Grouped, Assigned
  <2>4. Joined(P)
    BY <1>2, <2>1, <2>2 DEF Grouped, Joined
  <2>5. Covered(P, T)
    BY <1>2, <2>1, <2>2 DEF Grouped, Covered
  <2> QED
    BY <2>3, <2>4, <2>5 DEF Grouped
<1>7. Keeps(E, P)
  BY <1>2, <1>3 DEF Keeps
<1>8. Founded(E, P)
  <2>1. /\ P.placed = E.placed /\ \A a : Connected(P, a) = Connected(E, a)
        /\ \A a, b : Precedes(P, a, b) <=> Precedes(E, a, b)
    BY <1>2 DEF SameGraph, Connected, Precedes, V
  <2>2. \A a, S : Leads(P, a, S) <=> Leads(E, a, S)
    BY <2>1 DEF Leads
  <2>3. ASSUME NEW d \in LiveIds(E), Whole(E, d)
        PROVE  Whole(P, d)
    <3>1. P.chains[d].members = E.chains[d].members
      BY <1>3
    <3> QED
      BY <1>2, <2>1, <2>2, <2>3, <3>1 DEF Whole, BearsId
  <2> QED
    BY <1>3, <2>3 DEF Founded
<1>9. Regrouped(E, T, P)
  BY <1>2, <1>4, <1>5, <1>6, <1>7, <1>8 DEF Regrouped
<1> QED
  BY <1>9 DEF P

----------------------------------------------------------------------------
\* evaluate.

\* The alert after all others of a set.
LEMMA LatestIs ==
  ASSUME NEW E, NEW S \in SUBSET Alerts, S # {}, Timed(E, S)
  PROVE  Latest(E, S) \in S
<1> DEFINE After(a) == {b \in S : Precedes(E, a, b)}
           N == {Cardinality(After(a)) : a \in S}
<1>1. S \subseteq Nat /\ IsFiniteSet(S) /\ \A a \in S : V(E, a).time \in Nat
  BY ChainsAssumption, FS_Subset DEF Timed
<1>2. \A a \in S : IsFiniteSet(After(a)) /\ Cardinality(After(a)) \in Nat
  BY <1>1, FS_Subset, FS_CardinalityType
<1>3. PICK a \in S : \A b \in S : Cardinality(After(a)) <= Cardinality(After(b))
  <2>1. N \in SUBSET Nat /\ N # {}
    BY <1>2
  <2> HIDE DEF After
  <2>2. PICK n \in N : \A m \in N : n <= m
    BY <2>1, LeastNumber
  <2> QED
    BY <2>2
<1>4. ASSUME NEW b \in S, b # a
      PROVE  Precedes(E, b, a)
  <2>1. Precedes(E, b, a) \/ Precedes(E, a, b)
    BY <1>1, <1>4 DEF Precedes
  <2>2. CASE Precedes(E, a, b)
    <3>1. ASSUME NEW c \in After(b)
          PROVE  c \in After(a)
      <4>1. Precedes(E, b, c) /\ c \in S
        OBVIOUS
      <4> DEFINE x == V(E, a).time
                 y == V(E, b).time
                 z == V(E, c).time
      <4>2. x \in Nat /\ y \in Nat /\ z \in Nat /\ a \in Nat /\ b \in Nat /\ c \in Nat
        BY <1>1, <4>1
      <4>3. (x < y \/ (x = y /\ a < b)) /\ (y < z \/ (y = z /\ b < c))
        BY <2>2, <4>1 DEF Precedes
      <4> HIDE DEF x, y, z
      <4>4. x < z \/ (x = z /\ a < c)
        BY <4>2, <4>3
      <4>5. Precedes(E, a, c)
        BY <4>4 DEF Precedes, x, z
      <4> QED
        BY <4>1, <4>5
    <3>2. b \in After(a) /\ b \notin After(b)
      BY <1>1, <2>2 DEF Precedes
    <3>3. After(b) \in SUBSET After(a)
      BY <3>1
    <3>4. Cardinality(After(b)) <= Cardinality(After(a))
          /\ Cardinality(After(b)) # Cardinality(After(a))
      <4> HIDE DEF After
      <4> QED
        BY <1>2, <3>3, <3>2, FS_Subset
    <3>5. Cardinality(After(a)) <= Cardinality(After(b))
      BY <1>3
    <3> HIDE DEF After
    <3> QED
      BY <1>2, <3>4, <3>5
  <2> QED
    BY <2>1, <2>2
<1> QED
  BY <1>4 DEF Latest

\* An alert, once placed, is to be grouped; the others of T are to be already.
LEMMA InsertStep ==
  ASSUME history \in Histories, NEW G, Holds(G), NEW T, Grouped(G, T), Near(G),
         NEW a, Fresh(G, a), a \notin G.placed
  PROVE  /\ Holds(InsertAlert(G, a)) /\ Grouped(InsertAlert(G, a), T \cup {a})
         /\ Near(InsertAlert(G, a))
         /\ \E r : Insertion(G, a, r, InsertAlert(G, a))
<1> DEFINE I == InsertAlert(G, a)
<1>1. Holds(I)
  BY InsertHolds
<1>2. PICK r : Insertion(G, a, r, I)
  BY InsertHolds
<1> HIDE DEF I
<1>3. G.of[a] = NoId
  BY DEF Fresh, Grouped, Assigned
<1>4. Near(I)
  BY <1>1, <1>2, InsertNear
<1>5. Assigned(I, T \cup {a}) /\ Covered(I, T \cup {a})
  BY <1>1, <1>2, <1>3, InsertGroups DEF Grouped
<1>6. Joined(I)
  <2>1. I.of = G.of /\ I.placed = G.placed \cup {a}
    BY <1>2 DEF Insertion
  <2>2. ASSUME NEW b \in I.placed, NEW d \in I.placed, I.of[b] = I.of[d], I.of[b] # NoId
        PROVE  d \in Connected(I, b)
    <3>1. b \in G.placed /\ d \in G.placed
      BY <1>3, <2>1, <2>2
    <3>2. d \in Connected(G, b)
      BY <2>1, <2>2, <3>1 DEF Grouped, Joined
    <3> QED
      BY <1>2, <3>1, <3>2, InsertConnects
  <2> QED
    BY <2>2 DEF Joined
<1> QED
  BY <1>1, <1>2, <1>4, <1>5, <1>6 DEF Grouped, I

\* f has what becomes of B when the alerts of a set are placed.
InsertIter(E, B, S, f) ==
  f = [s \in SUBSET S |->
         IF s = {} THEN B ELSE InsertAlert(f[s \ {Latest(E, s)}], Latest(E, s))]

\* Placing one alert after the other is a recursion over the sets of alerts.
LEMMA InsertIterates ==
  ASSUME NEW E, NEW B, NEW S, IsFiniteSet(S), \A s \in SUBSET S : s # {} => Latest(E, s) \in s
  PROVE  \E f : InsertIter(E, B, S, f)
<1> DEFINE Small(n) == {s \in SUBSET S : Cardinality(s) <= n}
           OneStep(f, D) == [s \in D |->
              IF s = {} THEN B ELSE InsertAlert(f[s \ {Latest(E, s)}], Latest(E, s))]
           Without == {n \in Nat : ~ \E f : f = OneStep(f, Small(n))}
<1>1. \A s \in SUBSET S : IsFiniteSet(s) /\ Cardinality(s) \in Nat
  BY FS_Subset, FS_CardinalityType
<1>2. \E f : f = OneStep(f, Small(0))
  <2> DEFINE f == [s \in Small(0) |-> B]
  <2>1. \A s \in Small(0) : s = {}
    BY <1>1, FS_EmptySet
  <2>2. f = OneStep(f, Small(0))
    BY <2>1
  <2> QED
    BY <2>2
<1>3. ASSUME NEW n \in Nat, NEW f, f = OneStep(f, Small(n))
      PROVE  \E g : g = OneStep(g, Small(n + 1))
  <2> DEFINE g == OneStep(f, Small(n + 1))
  <2>1. ASSUME NEW s \in Small(n + 1), s # {}
        PROVE  g[s \ {Latest(E, s)}] = f[s \ {Latest(E, s)}]
    <3> DEFINE t == s \ {Latest(E, s)}
    <3>1. Latest(E, s) \in s /\ s \in SUBSET S /\ Cardinality(s) <= n + 1 /\ IsFiniteSet(s)
      BY <1>1, <2>1
    <3>2. Cardinality(t) = Cardinality(s) - 1
      BY <3>1, FS_RemoveElement
    <3>3. t \in Small(n)
      BY <1>1, <3>1, <3>2
    <3>4. t \in Small(n + 1)
      BY <1>1, <3>3
    <3>5. f[t] = IF t = {} THEN B ELSE InsertAlert(f[t \ {Latest(E, t)}], Latest(E, t))
      BY <1>3, <3>3
    <3>6. g[t] = IF t = {} THEN B ELSE InsertAlert(f[t \ {Latest(E, t)}], Latest(E, t))
      BY <3>4
    <3> QED
      BY <3>5, <3>6
  <2>2. g = OneStep(g, Small(n + 1))
    <3> DEFINE h == OneStep(g, Small(n + 1))
    <3>1. \A s \in Small(n + 1) : g[s] = h[s]
      BY <2>1
    <3> QED
      BY <3>1
  <2> QED
    BY <2>2
<1> HIDE DEF OneStep
<1>4. Without = {}
  <2>1. SUFFICES ASSUME Without # {} PROVE FALSE
    OBVIOUS
  <2>2. PICK n \in Without : \A m \in Without : n <= m
    <3>1. Without \in SUBSET Nat
      OBVIOUS
    <3> HIDE DEF Without
    <3> QED
      BY <2>1, <3>1, LeastNumber
  <2>3. n \in Nat /\ n # 0
    BY <1>2, <2>2
  <2>4. n - 1 \in Nat /\ (n - 1) + 1 = n
    BY <2>3
  <2>5. n - 1 \notin Without
    <3> HIDE DEF Without
    <3>1. n - 1 \in Without => n <= n - 1
      BY <2>2
    <3> QED
      BY <2>3, <3>1
  <2>6. \E g : g = OneStep(g, Small((n - 1) + 1))
    <3> HIDE DEF Small
    <3>1. PICK f : f = OneStep(f, Small(n - 1))
      BY <2>4, <2>5
    <3> QED
      BY <1>3, <2>4, <3>1
  <2> QED
    BY <2>2, <2>4, <2>6
<1>5. Small(Cardinality(S)) = SUBSET S
  BY <1>1, FS_Subset
<1>6. Cardinality(S) \in Nat
  BY <1>1
<1> HIDE DEF Small
<1>7. \E f : f = OneStep(f, SUBSET S)
  BY <1>4, <1>5, <1>6
<1> QED
  BY <1>7 DEF OneStep, InsertIter

\* The fold of evaluate over what it inserts is what an iteration reaches.
LEMMA InsertAllIs ==
  ASSUME NEW E, NEW S, IsFiniteSet(S), \A s \in SUBSET S : s # {} => Latest(E, s) \in s
  PROVE  \E f : InsertIter(E, [E EXCEPT !.buffer = @ \ S], S, f) /\ InsertAll(E, S) = f[S]
<1> DEFINE B == [E EXCEPT !.buffer = @ \ S]
           f == CHOOSE f : f = [s \in SUBSET S |->
                  IF s = {} THEN B ELSE InsertAlert(f[s \ {Latest(E, s)}], Latest(E, s))]
<1>1. InsertAll(E, S) = f[S]
  BY Zenon DEF InsertAll, MapThenFoldSet
<1> HIDE DEF B
<1>2. f = CHOOSE g : InsertIter(E, B, S, g)
  BY DEF InsertIter
<1> HIDE DEF f
<1>3. \E g : InsertIter(E, B, S, g)
  BY InsertIterates
<1>4. InsertIter(E, B, S, f)
  BY <1>2, <1>3
<1> QED
  BY <1>1, <1>4 DEF B

\* What holds of the empty set, and of a set once it holds without one of its
\* elements, holds of every subset of a finite set.
LEMMA SubsetsOneByOne ==
  ASSUME NEW S, IsFiniteSet(S), NEW Q, {} \in Q,
         \A s \in SUBSET S : s # {} => \E x \in s : s \ {x} \in Q => s \in Q
  PROVE  \A s \in SUBSET S : s \in Q
<1> DEFINE N == {Cardinality(s) : s \in (SUBSET S) \ Q}
<1>1. \A s \in SUBSET S : IsFiniteSet(s) /\ Cardinality(s) \in Nat
  BY FS_Subset, FS_CardinalityType
<1>2. N \in SUBSET Nat
  BY <1>1
<1>3. SUFFICES ASSUME N # {} PROVE FALSE
  OBVIOUS
<1>4. PICK s \in (SUBSET S) \ Q : \A t \in (SUBSET S) \ Q : Cardinality(s) <= Cardinality(t)
  <2> HIDE DEF N
  <2>1. PICK n \in N : \A m \in N : n <= m
    BY <1>2, <1>3, LeastNumber
  <2> QED
    BY <2>1 DEF N
<1>5. PICK x \in s : s \ {x} \in Q => s \in Q
  BY <1>4
<1>6. s \ {x} \in SUBSET S /\ s \ {x} \notin Q
  BY <1>4, <1>5
<1>7. Cardinality(s \ {x}) = Cardinality(s) - 1 /\ Cardinality(s) \in Nat
  BY <1>1, <1>4, <1>5, FS_RemoveElement
<1>8. Cardinality(s) <= Cardinality(s \ {x})
  BY <1>4, <1>6
<1> QED
  BY <1>7, <1>8

\* G is E with the alerts of s, of all of S that leave the buffer, in place and
\* to be grouped.
Waits(E, S, s, G) ==
  /\ Holds(G) /\ Grouped(G, s) /\ Near(G)
  /\ G.placed = E.placed \cup s /\ G.buffer = E.buffer \ S
  /\ G.copy = E.copy /\ G.newest = E.newest
  /\ G.chains = E.chains /\ G.of = E.of /\ G.anchor = E.anchor /\ G.count = E.count

\* Alerts that leave the buffer change nothing else.
LEMMA Unbuffered ==
  ASSUME NEW E, Holds(E), Grouped(E, {}), Near(E), NEW S
  PROVE  Waits(E, S, {}, [E EXCEPT !.buffer = @ \ S])
<1> DEFINE B == [E EXCEPT !.buffer = @ \ S]
<1>1. E \in Engines(E)
  BY DEF Holds
<1>2. /\ B \in [copy : {E.copy}, buffer : {E.buffer \ S}, newest : {E.newest}, placed : {E.placed},
                res : {E.res}, about : {E.about}, primary : {E.primary}, lines : {E.lines},
                edges : {E.edges}, chains : {E.chains}, of : {E.of}, anchor : {E.anchor},
                count : {E.count}]
  BY <1>1 DEF Engines
<1> HIDE DEF B
<1>3. /\ B.copy = E.copy /\ B.buffer = E.buffer \ S /\ B.newest = E.newest
      /\ B.placed = E.placed /\ B.res = E.res /\ B.about = E.about /\ B.primary = E.primary
      /\ B.lines = E.lines /\ B.edges = E.edges /\ B.chains = E.chains /\ B.of = E.of
      /\ B.anchor = E.anchor /\ B.count = E.count
  BY <1>2
<1>4. Holds(B)
  <2>1. B \in Engines(B)
    BY <1>1, <1>2, <1>3 DEF Engines
  <2> QED
    BY <1>3, <2>1 DEF Holds
<1>5. LiveIds(B) = LiveIds(E) /\ \A a : Connected(B, a) = Connected(E, a)
  BY <1>3 DEF LiveIds, Connected
<1>6. Grouped(B, {})
  <2>1. Assigned(B, {})
    BY <1>3, <1>5 DEF Grouped, Assigned
  <2>2. Joined(B)
    BY <1>3, <1>5 DEF Grouped, Joined
  <2>3. Covered(B, {})
    BY <1>3, <1>5 DEF Grouped, Covered
  <2> QED
    BY <2>1, <2>2, <2>3 DEF Grouped
<1>7. Near(B)
  <2>1. \A e : Line(B, e) = Line(E, e)
    BY <1>3 DEF Line
  <2>2. \A a, L : Adjacent(B, a, L) = Adjacent(E, a, L)
    BY <1>3 DEF Adjacent, Precedes, V
  <2> QED
    BY <1>5, <2>1, <2>2 DEF Near
<1>8. Waits(E, S, {}, B)
  BY <1>3, <1>4, <1>6, <1>7 DEF Waits
<1> QED
  BY <1>8 DEF B

\* _evaluate places what is due.
LEMMA InsertAllMade ==
  ASSUME history \in Histories, NEW E, Holds(E), Grouped(E, {}), Near(E),
         NEW S \in SUBSET E.buffer
  PROVE  Waits(E, S, S, InsertAll(E, S))
<1>1. S \in SUBSET Alerts /\ IsFiniteSet(S) /\ Timed(E, S) /\ E.placed \cap E.buffer = {}
  BY TimesKnown, ChainsAssumption, FS_Subset DEF Timed, Holds
<1>2. \A s \in SUBSET S : s # {} => Latest(E, s) \in s
  BY <1>1, LatestIs DEF Timed
<1> DEFINE B == [E EXCEPT !.buffer = @ \ S]
<1>3. PICK f : InsertIter(E, B, S, f) /\ InsertAll(E, S) = f[S]
  BY <1>1, <1>2, InsertAllIs
<1>4. Waits(E, S, {}, B)
  BY Unbuffered
<1> HIDE DEF B
<1> DEFINE Q == {s \in SUBSET S : Waits(E, S, s, f[s])}
<1>5. {} \in Q
  <2>1. f[{}] = B
    BY <1>3 DEF InsertIter
  <2> QED
    BY <1>4, <2>1
<1>6. ASSUME NEW s \in SUBSET S, s # {}
      PROVE  \E x \in s : s \ {x} \in Q => s \in Q
  <2> DEFINE a == Latest(E, s)
             t == s \ {a}
             G == f[t]
             I == InsertAlert(G, a)
  <2>1. a \in s /\ a \in E.buffer /\ a \in Alerts
    BY <1>1, <1>2, <1>6
  <2>2. f[s] = I
    BY <1>3, <1>6 DEF InsertIter
  <2> HIDE DEF a, G, I
  <2>3. ASSUME t \in Q
        PROVE  s \in Q
    <3>1. Waits(E, S, t, G)
      BY <2>3 DEF G
    <3>2. Fresh(G, a) /\ a \notin G.placed
      <4>1. G.buffer = E.buffer \ S /\ G.copy = E.copy /\ G.placed = E.placed \cup t /\ Holds(G)
        BY <3>1 DEF Waits
      <4>2. a \notin G.buffer /\ a \notin G.placed
        BY <1>1, <2>1, <4>1
      <4>3. G.copy[a] \in 1 .. Newest(a)
        BY <2>1, <4>1 DEF Holds
      <4> QED
        BY <2>1, <4>1, <4>2, <4>3 DEF Fresh, Holds
    <3>3. /\ Holds(I) /\ Grouped(I, t \cup {a}) /\ Near(I)
          /\ \E r : Insertion(G, a, r, I)
      BY <3>1, <3>2, InsertStep DEF Waits, I
    <3>4. t \cup {a} = s
      BY <2>1
    <3>5. Waits(E, S, s, I)
      <4>1. PICK r : Insertion(G, a, r, I)
        BY <3>3
      <4>2. /\ I.placed = G.placed \cup {a} /\ I.buffer = G.buffer /\ I.copy = G.copy
            /\ I.chains = G.chains /\ I.of = G.of /\ I.anchor = G.anchor /\ I.count = G.count
            /\ I.newest = G.newest
        BY <4>1 DEF Insertion
      <4> QED
        BY <3>1, <3>3, <3>4, <4>2 DEF Waits
    <3> QED
      BY <2>2, <3>5
  <2> QED
    BY <2>1, <2>3
<1>7. S \in Q
  <2> HIDE DEF Q
  <2> QED
    BY <1>1, <1>5, <1>6, SubsetsOneByOne
<1> QED
  BY <1>3, <1>7

\* f has what becomes of B when the alerts of a set are grouped.
RegroupIter(E, B, S, f) ==
  f = [s \in SUBSET S |->
         IF s = {} THEN B ELSE Regroup(f[s \ {Latest(E, s)}], Latest(E, s))]

\* Grouping one alert after the other is a recursion over the sets of alerts.
LEMMA RegroupIterates ==
  ASSUME NEW E, NEW B, NEW S, IsFiniteSet(S), \A s \in SUBSET S : s # {} => Latest(E, s) \in s
  PROVE  \E f : RegroupIter(E, B, S, f)
<1> DEFINE Small(n) == {s \in SUBSET S : Cardinality(s) <= n}
           OneStep(f, D) == [s \in D |->
              IF s = {} THEN B ELSE Regroup(f[s \ {Latest(E, s)}], Latest(E, s))]
           Without == {n \in Nat : ~ \E f : f = OneStep(f, Small(n))}
<1>1. \A s \in SUBSET S : IsFiniteSet(s) /\ Cardinality(s) \in Nat
  BY FS_Subset, FS_CardinalityType
<1>2. \E f : f = OneStep(f, Small(0))
  <2> DEFINE f == [s \in Small(0) |-> B]
  <2>1. \A s \in Small(0) : s = {}
    BY <1>1, FS_EmptySet
  <2>2. f = OneStep(f, Small(0))
    BY <2>1
  <2> QED
    BY <2>2
<1>3. ASSUME NEW n \in Nat, NEW f, f = OneStep(f, Small(n))
      PROVE  \E g : g = OneStep(g, Small(n + 1))
  <2> DEFINE g == OneStep(f, Small(n + 1))
  <2>1. ASSUME NEW s \in Small(n + 1), s # {}
        PROVE  g[s \ {Latest(E, s)}] = f[s \ {Latest(E, s)}]
    <3> DEFINE t == s \ {Latest(E, s)}
    <3>1. Latest(E, s) \in s /\ s \in SUBSET S /\ Cardinality(s) <= n + 1 /\ IsFiniteSet(s)
      BY <1>1, <2>1
    <3>2. Cardinality(t) = Cardinality(s) - 1
      BY <3>1, FS_RemoveElement
    <3>3. t \in Small(n)
      BY <1>1, <3>1, <3>2
    <3>4. t \in Small(n + 1)
      BY <1>1, <3>3
    <3>5. f[t] = IF t = {} THEN B ELSE Regroup(f[t \ {Latest(E, t)}], Latest(E, t))
      BY <1>3, <3>3
    <3>6. g[t] = IF t = {} THEN B ELSE Regroup(f[t \ {Latest(E, t)}], Latest(E, t))
      BY <3>4
    <3> QED
      BY <3>5, <3>6
  <2>2. g = OneStep(g, Small(n + 1))
    <3> DEFINE h == OneStep(g, Small(n + 1))
    <3>1. \A s \in Small(n + 1) : g[s] = h[s]
      BY <2>1
    <3> QED
      BY <3>1
  <2> QED
    BY <2>2
<1> HIDE DEF OneStep
<1>4. Without = {}
  <2>1. SUFFICES ASSUME Without # {} PROVE FALSE
    OBVIOUS
  <2>2. PICK n \in Without : \A m \in Without : n <= m
    <3>1. Without \in SUBSET Nat
      OBVIOUS
    <3> HIDE DEF Without
    <3> QED
      BY <2>1, <3>1, LeastNumber
  <2>3. n \in Nat /\ n # 0
    BY <1>2, <2>2
  <2>4. n - 1 \in Nat /\ (n - 1) + 1 = n
    BY <2>3
  <2>5. n - 1 \notin Without
    <3> HIDE DEF Without
    <3>1. n - 1 \in Without => n <= n - 1
      BY <2>2
    <3> QED
      BY <2>3, <3>1
  <2>6. \E g : g = OneStep(g, Small((n - 1) + 1))
    <3> HIDE DEF Small
    <3>1. PICK f : f = OneStep(f, Small(n - 1))
      BY <2>4, <2>5
    <3> QED
      BY <1>3, <2>4, <3>1
  <2> QED
    BY <2>2, <2>4, <2>6
<1>5. Small(Cardinality(S)) = SUBSET S
  BY <1>1, FS_Subset
<1>6. Cardinality(S) \in Nat
  BY <1>1
<1> HIDE DEF Small
<1>7. \E f : f = OneStep(f, SUBSET S)
  BY <1>4, <1>5, <1>6
<1> QED
  BY <1>7 DEF OneStep, RegroupIter

\* The fold of evaluate over what it groups is what an iteration reaches.
LEMMA RegroupAllIs ==
  ASSUME NEW E, NEW S, IsFiniteSet(S), \A s \in SUBSET S : s # {} => Latest(E, s) \in s
  PROVE  \E f : RegroupIter(E, E, S, f) /\ RegroupAll(E, S) = f[S]
<1> DEFINE f == CHOOSE f : f = [s \in SUBSET S |->
                  IF s = {} THEN E ELSE Regroup(f[s \ {Latest(E, s)}], Latest(E, s))]
<1>1. RegroupAll(E, S) = f[S]
  BY Zenon DEF RegroupAll, MapThenFoldSet
<1>2. f = CHOOSE g : RegroupIter(E, E, S, g)
  BY DEF RegroupIter
<1> HIDE DEF f
<1>3. \E g : RegroupIter(E, E, S, g)
  BY RegroupIterates
<1>4. RegroupIter(E, E, S, f)
  BY <1>2, <1>3
<1> QED
  BY <1>1, <1>4

\* _evaluate groups what it placed.
LEMMA RegroupAllMade ==
  ASSUME history \in Histories, NEW E, Holds(E), IdsHeld(E), NEW S \in SUBSET E.placed,
         Grouped(E, S)
  PROVE  Regrouped(E, {}, RegroupAll(E, S))
<1>1. S \in SUBSET Alerts /\ IsFiniteSet(S) /\ Timed(E, S)
  BY TimesKnown, ChainsAssumption, FS_Subset DEF Timed
<1>2. \A s \in SUBSET S : s # {} => Latest(E, s) \in s
  BY <1>1, LatestIs DEF Timed
<1>3. PICK f : RegroupIter(E, E, S, f) /\ RegroupAll(E, S) = f[S]
  BY <1>1, <1>2, RegroupAllIs
<1> DEFINE Q == {s \in SUBSET S : Regrouped(E, S \ s, f[s])}
<1>4. {} \in Q
  <2>1. f[{}] = E /\ S \ {} = S
    BY <1>3 DEF RegroupIter
  <2>2. Keeps(E, E) /\ Founded(E, E)
    BY DEF Keeps, Founded, LiveIds
  <2>3. Regrouped(E, S, E)
    BY <2>2 DEF Regrouped, SameGraph
  <2> QED
    BY <2>1, <2>3
<1>5. ASSUME NEW s \in SUBSET S, s # {}
      PROVE  \E x \in s : s \ {x} \in Q => s \in Q
  <2> DEFINE a == Latest(E, s)
             t == s \ {a}
             G == f[t]
             P == Assign(G, Connected(G, a))
  <2>1. a \in s
    BY <1>2, <1>5
  <2>2. f[s] = P
    BY <1>3, <1>5 DEF RegroupIter, Regroup, Connected
  <2> HIDE DEF a, G, P
  <2>3. ASSUME t \in Q
        PROVE  s \in Q
    <3>1. Regrouped(E, S \ t, G)
      BY <2>3 DEF G
    <3>2. a \in G.placed
      BY <2>1, <3>1 DEF Regrouped, SameGraph
    <3>3. Regrouped(G, (S \ t) \ {a}, P)
      BY <3>1, <3>2, AssignMade DEF Regrouped, P
    <3>4. (S \ t) \ {a} = S \ s
      BY <2>1
    <3>5. Regrouped(E, S \ s, P)
      BY <3>1, <3>3, <3>4, RegroupedOn
    <3> QED
      BY <2>2, <3>5
  <2> QED
    BY <2>1, <2>3
<1>6. S \in Q
  <2> HIDE DEF Q
  <2> QED
    BY <1>1, <1>4, <1>5, SubsetsOneByOne
<1>7. S \ S = {}
  OBVIOUS
<1> QED
  BY <1>3, <1>6, <1>7

\* Ids are held by the same chains.
LEMMA SameIds ==
  ASSUME NEW E, NEW F, IdsHeld(E), F.chains = E.chains, F.of = E.of, F.anchor = E.anchor,
         F.count = E.count
  PROVE  IdsHeld(F)
BY DEF IdsHeld, Issued, LiveIds

\* A grouped correlator that is scored anew is steady.
LEMMA RegroupedSteady ==
  ASSUME NEW E, Near(E), NEW F, Regrouped(E, {}, F)
  PROVE  Steady(Rescore(F)) /\ Grew(E, Rescore(F)) /\ SameGraph(E, Rescore(F))
<1>1. Regrouped(F, {}, Rescore(F))
  BY RescoreMade DEF Regrouped
<1>2. Regrouped(E, {}, Rescore(F))
  BY <1>1, RegroupedOn
<1>3. Near(Rescore(F))
  BY <1>2, SameNear DEF Regrouped
<1> QED
  BY <1>2, <1>3, RegroupedGrew DEF Regrouped, Steady

\* evaluate
LEMMA EvaluatedMade ==
  ASSUME history \in Histories, NEW E, Steady(E)
  PROVE  /\ Steady(Evaluated(E)) /\ Grew(E, Evaluated(E))
         /\ Evaluated(E).copy = E.copy /\ Evaluated(E).newest = E.newest
<1> DEFINE ready == {a \in E.buffer : V(E, a).time + grace <= E.newest}
           I == InsertAll(E, ready)
           F == RegroupAll(I, ready)
<1>1. Evaluated(E) = IF ready = {} THEN E ELSE Rescore(F)
  BY DEF Evaluated
<1>2. ready \in SUBSET E.buffer
  OBVIOUS
<1> HIDE DEF ready
<1>3. Waits(E, ready, ready, I)
  BY <1>2, InsertAllMade DEF Steady
<1> HIDE DEF I
<1>4. IdsHeld(I) /\ Grew(E, I)
  <2>1. I.chains = E.chains /\ I.of = E.of /\ I.anchor = E.anchor /\ I.count = E.count
    BY <1>3 DEF Waits
  <2> QED
    BY <2>1, SameIds, GrewSame DEF Steady
<1>5. Regrouped(I, {}, F)
  BY <1>3, <1>4, RegroupAllMade DEF Waits
<1> HIDE DEF F
<1>6. Steady(Rescore(F)) /\ Grew(I, Rescore(F)) /\ SameGraph(I, Rescore(F))
  BY <1>3, <1>5, RegroupedSteady DEF Waits
<1>7. /\ Grew(E, Rescore(F))
      /\ Rescore(F).copy = E.copy /\ Rescore(F).newest = E.newest
  BY <1>3, <1>6, GrewAfter DEF Waits, SameGraph
<1>8. Grew(E, E)
  BY GrewSame
<1> QED
  BY <1>1, <1>6, <1>7, <1>8

----------------------------------------------------------------------------
\* revise.

\* In a correlator with nothing left to group, a chain is what is connected.
LEMMA ChainConnected ==
  ASSUME NEW E, Holds(E), Grouped(E, {}), NEW a \in E.placed
  PROVE  /\ E.of[a] \in LiveIds(E)
         /\ Connected(E, a) = {b \in E.placed : E.of[b] = E.of[a]}
         /\ E.chains[E.of[a]].members = Connected(E, a)
<1> DEFINE C == {b \in E.placed : E.of[b] = E.of[a]}
<1>1. E.of[a] \in LiveIds(E) /\ E.of[a] # NoId
  BY DEF Grouped, Assigned, LiveIds, Holds
<1>2. C \subseteq Connected(E, a)
  BY <1>1 DEF Grouped, Joined
<1>3. Closed(E.edges, E.placed, C)
  BY DEF Grouped, Covered, Closed
<1>4. Connected(E, a) \subseteq C
  <2>1. C \in SUBSET E.placed /\ a \in C
    OBVIOUS
  <2> HIDE DEF C
  <2> QED
    BY <1>3, <2>1, ComponentLeast DEF Connected
<1>5. E.chains[E.of[a]].members = C
  BY <1>1 DEF Grouped, Assigned
<1> QED
  BY <1>1, <1>2, <1>4, <1>5

\* A live chain has not been merged away.
LEMMA LiveIdIs ==
  ASSUME NEW E, NEW c \in LiveIds(E)
  PROVE  LiveId(E, c) = c
<1> DEFINE LeadsTo(d) == \A T \in SUBSET DOMAIN E.chains : c \in T /\ FollowsMerges(E, T) => d \in T
<1>1. LeadsTo(c)
  OBVIOUS
<1>2. {c} \in SUBSET DOMAIN E.chains /\ FollowsMerges(E, {c})
  BY DEF LiveIds, FollowsMerges
<1>3. \A d : LeadsTo(d) => d = c
  BY <1>2
<1>4. LiveId(E, c) = CHOOSE d \in LiveIds(E) : LeadsTo(d)
  BY DEF LiveId
<1> HIDE DEF LeadsTo
<1> QED
  BY <1>1, <1>3, <1>4

\* D is E with another revision of a and another resolver, and fewer lines and edges.
Renewed(E, a, r, R, D) ==
  /\ D \in [copy : {[E.copy EXCEPT ![a] = r]}, buffer : {E.buffer}, newest : {E.newest},
            placed : {E.placed}, res : {R}, about : {E.about}, primary : {E.primary},
            lines : SUBSET E.lines, edges : SUBSET E.edges, chains : {E.chains}, of : {E.of},
            anchor : {E.anchor}, count : {E.count}]
  /\ D.copy = [E.copy EXCEPT ![a] = r] /\ D.lines \subseteq E.lines /\ D.edges \subseteq E.edges

\* Later resolvers know the entities of R.
Knows(R, Q) == Resolving(Q) /\ Numbers(R) \subseteq Numbers(Q)

\* A revision of an alert, its links and timelines gone or not, keeps the chains.
LEMMA RenewedMade ==
  ASSUME NEW E, Holds(E), IdsHeld(E), Grouped(E, {}), NEW a \in Alerts, NEW r \in 1 .. Newest(a),
         NEW R, Knows(E.res, R), NEW D, Renewed(E, a, r, R, D)
  PROVE  /\ Holds(D) /\ IdsHeld(D) /\ Assigned(D, {}) /\ Covered(D, {})
         /\ D.copy[a] = r /\ \A b : b # a => V(D, b) = V(E, b)
<1>1. /\ D.copy = [E.copy EXCEPT ![a] = r] /\ D.buffer = E.buffer /\ D.newest = E.newest
      /\ D.placed = E.placed /\ D.res = R /\ D.about = E.about /\ D.primary = E.primary
      /\ D.lines \subseteq E.lines /\ D.edges \subseteq E.edges /\ D.chains = E.chains
      /\ D.of = E.of /\ D.anchor = E.anchor /\ D.count = E.count
  BY DEF Renewed
<1>2. E \in Engines(E)
  BY DEF Holds
<1>3. r \in Nat
  BY DEF Newest
<1>4. /\ D.copy \in [Alerts -> Nat] /\ D.copy[a] = r
      /\ \A b \in Alerts \ {a} : D.copy[b] = E.copy[b]
      /\ \A b : b # a => D.copy[b] = E.copy[b]
  BY <1>1, <1>2, <1>3 DEF Engines
<1>5. D \in Engines(D)
  <2>1. D.lines \in SUBSET (Nat \X Alerts) /\ D.edges \in SUBSET SUBSET Alerts
    BY <1>1, <1>2 DEF Engines
  <2>2. D \in [copy : {D.copy}, buffer : {D.buffer}, newest : {D.newest}, placed : {D.placed},
               res : {D.res}, about : {D.about}, primary : {D.primary}, lines : {D.lines},
               edges : {D.edges}, chains : {D.chains}, of : {D.of}, anchor : {D.anchor},
               count : {D.count}]
    BY DEF Renewed
  <2>3. /\ D.buffer \in SUBSET Alerts /\ D.placed \in SUBSET Alerts
        /\ D.about \in [Alerts -> SUBSET Nat] /\ D.primary \in [Alerts -> Nat]
        /\ D.of \in [Alerts -> IdSet] /\ D.anchor \in [Alerts -> IdSet]
    BY <1>1, <1>2 DEF Engines
  <2> QED
    BY <1>4, <2>1, <2>2, <2>3 DEF Engines
<1>6. Holds(D)
  <2>1. \A b \in D.placed \cup D.buffer : D.copy[b] \in 1 .. Newest(b)
    BY <1>1, <1>2, <1>4 DEF Holds, Engines
  <2>2. /\ Resolving(D.res) /\ Numbers(E.res) \subseteq Numbers(D.res)
    BY <1>1 DEF Knows
  <2>3. \A b \in D.placed : D.primary[b] \in Numbers(D.res)
    BY <1>1, <2>2 DEF Holds
  <2>4. \A l \in D.lines : l[1] \in Numbers(D.res) /\ l[2] \in D.placed
    BY <1>1, <2>2 DEF Holds
  <2> QED
    BY <1>1, <1>5, <2>1, <2>2, <2>3, <2>4 DEF Holds
<1>7. IdsHeld(D)
  BY <1>1, SameIds
<1>8. LiveIds(D) = LiveIds(E)
  BY <1>1 DEF LiveIds
<1>9. Assigned(D, {})
  BY <1>1, <1>8 DEF Grouped, Assigned
<1>10. Covered(D, {})
  BY <1>1 DEF Grouped, Covered
<1>11. \A b : b # a => V(D, b) = V(E, b)
  BY <1>4 DEF V
<1> QED
  BY <1>4, <1>6, <1>7, <1>9, <1>10, <1>11

\* A resolver that learns, or a revision that moves nothing, leaves all in place.
LEMMA RenewedSteady ==
  ASSUME NEW E, Steady(E), NEW a \in Alerts, NEW r \in 1 .. Newest(a),
         NEW R, Knows(E.res, R), NEW D, Renewed(E, a, r, R, D),
         D.lines = E.lines, D.edges = E.edges,
         a \notin E.placed \/ V(D, a).time = V(E, a).time
  PROVE  Steady(D) /\ Grew(E, D)
<1>1. /\ Holds(D) /\ IdsHeld(D) /\ Assigned(D, {}) /\ Covered(D, {})
      /\ \A b : b # a => V(D, b) = V(E, b)
  BY RenewedMade DEF Steady
<1>2. D.placed = E.placed /\ D.of = E.of /\ D.chains = E.chains /\ D.anchor = E.anchor
  BY DEF Renewed
<1>3. \A b : Connected(D, b) = Connected(E, b)
  BY <1>2 DEF Connected
<1>4. Joined(D)
  BY <1>2, <1>3 DEF Steady, Grouped, Joined
<1>5. \A b \in E.placed : V(D, b).time = V(E, b).time
  BY <1>1
<1>6. \A e : Line(D, e) = Line(E, e) /\ Line(E, e) \subseteq E.placed
  BY DEF Line, Steady, Holds
<1>7. ASSUME NEW e \in Nat, NEW x \in Line(D, e), NEW b \in Adjacent(D, x, Line(D, e) \ {x})
      PROVE  b \in Connected(D, x)
  <2> DEFINE L == Line(E, e)
             S == L \ {x}
  <2>1. x \in E.placed /\ x \in L /\ S \subseteq E.placed /\ b \in Adjacent(D, x, S)
    BY <1>6, <1>7
  <2>2. b \in S
    BY <2>1 DEF Adjacent
  <2>3. \A c, d \in E.placed : Precedes(D, c, d) <=> Precedes(E, c, d)
    BY <1>5 DEF Precedes
  <2>4. b \in Adjacent(E, x, S)
    <3> HIDE DEF S
    <3>1. /\ \A c \in S \ {b} : ~(Precedes(D, x, c) /\ Precedes(D, c, b))
          /\ \A c \in S \ {b} : ~(Precedes(D, c, x) /\ Precedes(D, b, c))
          /\ V(D, x).time - V(D, b).time <= Window
          /\ V(D, b).time - V(D, x).time <= Window
      BY <2>1 DEF Adjacent
    <3>2. /\ \A c \in S \ {b} : ~(Precedes(E, x, c) /\ Precedes(E, c, b))
          /\ \A c \in S \ {b} : ~(Precedes(E, c, x) /\ Precedes(E, b, c))
      BY <2>1, <2>2, <2>3, <3>1
    <3>3. /\ V(E, x).time - V(E, b).time <= Window
          /\ V(E, b).time - V(E, x).time <= Window
      BY <1>5, <2>1, <2>2, <3>1
    <3> QED
      BY <2>2, <3>2, <3>3 DEF Adjacent
  <2>5. b \in Connected(E, x)
    BY <2>1, <2>4 DEF Steady, Near
  <2> QED
    BY <1>3, <2>5
<1>8. Near(D)
  BY <1>7 DEF Near
<1>9. Grew(E, D)
  BY <1>2, GrewSame
<1> QED
  BY <1>1, <1>4, <1>8, <1>9 DEF Steady, Grouped

\* D is E without the links and timelines of a, and with its next revision.
Removed(E, a, r, R, D) ==
  /\ Renewed(E, a, r, R, D)
  /\ D.lines = {l \in E.lines : l[2] # a} /\ D.edges = {p \in E.edges : a \notin p}

\* _detach and the exchange of the revision make such a correlator.
LEMMA DetachIs ==
  ASSUME NEW E, Holds(E), NEW a, NEW r, NEW R
  PROVE  /\ Removed(E, a, r, R, Takes(Detach([E EXCEPT !.res = R], a), a, r))
         /\ Removed(E, a, r, E.res, Takes(Detach(E, a), a, r))
         /\ Renewed(E, a, E.copy[a], R, [E EXCEPT !.res = R])
         /\ Renewed(E, a, r, E.res, Takes(E, a, r))
<1> DEFINE F == [E EXCEPT !.res = R]
           lines == {l \in E.lines : l[2] # a}
           edges == {p \in E.edges : a \notin p}
           copy == [E.copy EXCEPT ![a] = r]
<1>1. E \in Engines(E)
  BY DEF Holds
<1>2. /\ F \in [copy : {E.copy}, buffer : {E.buffer}, newest : {E.newest}, placed : {E.placed},
                res : {R}, about : {E.about}, primary : {E.primary}, lines : {E.lines},
                edges : {E.edges}, chains : {E.chains}, of : {E.of}, anchor : {E.anchor},
                count : {E.count}]
      /\ F.lines = E.lines /\ F.edges = E.edges /\ F.copy = E.copy
  BY <1>1 DEF Engines
<1> HIDE DEF F
<1>3. Detach(F, a) = [F EXCEPT !.edges = edges, !.lines = lines]
  BY <1>2 DEF Detach
<1>4. Detach(E, a) = [E EXCEPT !.edges = edges, !.lines = lines]
  BY DEF Detach
<1> HIDE DEF lines, edges, copy
<1> DEFINE G == Detach(F, a)
           H == Detach(E, a)
<1>5. /\ G \in [copy : {E.copy}, buffer : {E.buffer}, newest : {E.newest}, placed : {E.placed},
                res : {R}, about : {E.about}, primary : {E.primary}, lines : {lines},
                edges : {edges}, chains : {E.chains}, of : {E.of}, anchor : {E.anchor},
                count : {E.count}]
      /\ G.copy = E.copy /\ G.lines = lines /\ G.edges = edges
  BY <1>2, <1>3
<1>6. /\ H \in [copy : {E.copy}, buffer : {E.buffer}, newest : {E.newest}, placed : {E.placed},
                res : {E.res}, about : {E.about}, primary : {E.primary}, lines : {lines},
                edges : {edges}, chains : {E.chains}, of : {E.of}, anchor : {E.anchor},
                count : {E.count}]
      /\ H.copy = E.copy /\ H.lines = lines /\ H.edges = edges
  BY <1>1, <1>4 DEF Engines
<1> HIDE DEF G, H
<1>7. Takes(G, a, r) = [G EXCEPT !.copy = copy] /\ Takes(H, a, r) = [H EXCEPT !.copy = copy]
      /\ Takes(E, a, r) = [E EXCEPT !.copy = copy]
  BY <1>5, <1>6 DEF Takes, copy
<1>8. lines \subseteq E.lines /\ edges \subseteq E.edges
  BY DEF lines, edges
<1>9. Removed(E, a, r, R, Takes(G, a, r))
  <2> DEFINE D == Takes(G, a, r)
  <2>1. /\ D \in [copy : {copy}, buffer : {E.buffer}, newest : {E.newest}, placed : {E.placed},
                  res : {R}, about : {E.about}, primary : {E.primary}, lines : {lines},
                  edges : {edges}, chains : {E.chains}, of : {E.of}, anchor : {E.anchor},
                  count : {E.count}]
        /\ D.copy = copy /\ D.lines = lines /\ D.edges = edges
    BY <1>5, <1>7
  <2> HIDE DEF D
  <2>2. Removed(E, a, r, R, D)
    BY <1>8, <2>1 DEF Removed, Renewed, lines, edges, copy
  <2> QED
    BY <2>2 DEF D
<1>10. Removed(E, a, r, E.res, Takes(H, a, r))
  <2> DEFINE D == Takes(H, a, r)
  <2>1. /\ D \in [copy : {copy}, buffer : {E.buffer}, newest : {E.newest}, placed : {E.placed},
                  res : {E.res}, about : {E.about}, primary : {E.primary}, lines : {lines},
                  edges : {edges}, chains : {E.chains}, of : {E.of}, anchor : {E.anchor},
                  count : {E.count}]
        /\ D.copy = copy /\ D.lines = lines /\ D.edges = edges
    BY <1>6, <1>7
  <2> HIDE DEF D
  <2>2. Removed(E, a, r, E.res, D)
    BY <1>8, <2>1 DEF Removed, Renewed, lines, edges, copy
  <2> QED
    BY <2>2 DEF D
<1>11. Renewed(E, a, E.copy[a], R, F)
  <2>1. [E.copy EXCEPT ![a] = E.copy[a]] = E.copy
    BY <1>1 DEF Engines
  <2> QED
    BY <1>2, <2>1 DEF Renewed
<1>12. Renewed(E, a, r, E.res, Takes(E, a, r))
  <2> DEFINE D == Takes(E, a, r)
  <2>1. /\ D \in [copy : {copy}, buffer : {E.buffer}, newest : {E.newest}, placed : {E.placed},
                  res : {E.res}, about : {E.about}, primary : {E.primary}, lines : {E.lines},
                  edges : {E.edges}, chains : {E.chains}, of : {E.of}, anchor : {E.anchor},
                  count : {E.count}]
        /\ D.copy = copy /\ D.lines = E.lines /\ D.edges = E.edges
    BY <1>1, <1>7 DEF Engines
  <2> HIDE DEF D
  <2>2. Renewed(E, a, r, E.res, D)
    BY <2>1 DEF Renewed, copy
  <2> QED
    BY <2>2 DEF D
<1> QED
  BY <1>9, <1>10, <1>11, <1>12 DEF F, G, H

\* The alerts of a chain that does not split stay connected without a.
LEMMA DetachConnects ==
  ASSUME NEW E, Holds(E), Grouped(E, {}), NEW a \in E.placed,
         ~Splits(E, Connected(E, a) \ {a}),
         NEW D, D.placed = E.placed, D.edges = {p \in E.edges : a \notin p},
         NEW x \in E.placed \ {a}, NEW y \in Connected(E, x) \ {a}
  PROVE  y \in Connected(D, x)
<1> DEFINE others == Connected(E, a) \ {a}
<1>1. CASE a \in Connected(E, x)
  <2>1. Connected(E, a) = Connected(E, x)
    BY <1>1, ComponentSame DEF Connected
  <2>2. x \in others /\ y \in others
    BY <2>1, ComponentLeast DEF Connected
  <2>3. Component(E.edges, others, x) = others
    BY <2>2 DEF Splits
  <2>4. others \subseteq D.placed
    BY DEF Connected, Component
  <2>5. \A p \in E.edges : p \subseteq others => p \in D.edges
    OBVIOUS
  <2> HIDE DEF others
  <2>6. Component(E.edges, others, x) \subseteq Component(D.edges, D.placed, x)
    BY <2>2, <2>4, <2>5, ComponentGrows
  <2> QED
    BY <2>2, <2>3, <2>6 DEF Connected
<1>2. CASE a \notin Connected(E, x)
  <2>1. \A p \in E.edges : p \subseteq Connected(E, x) => p \in D.edges
    BY <1>2
  <2>2. Connected(E, x) \subseteq Connected(D, x)
    BY <2>1, ComponentStays DEF Connected
  <2> QED
    BY <2>2
<1> QED
  BY <1>1, <1>2

\* Whoever is between two neighbours is next to both.
LEMMA Between ==
  ASSUME NEW E, NEW L, Timed(E, L), L \subseteq Nat, NEW x \in L, NEW a \in L, NEW b \in L,
         Precedes(E, x, a), Precedes(E, a, b),
         \A c \in L \ {x, a, b} : ~(Precedes(E, x, c) /\ Precedes(E, c, b)),
         V(E, b).time - V(E, x).time <= Window
  PROVE  a \in Adjacent(E, x, L \ {x}) /\ b \in Adjacent(E, a, L \ {a})
<1> DEFINE t(c) == V(E, c).time
<1>1. \A c \in L : t(c) \in Nat /\ c \in Nat
  BY DEF Timed
<1>2. \A c, d : Precedes(E, c, d) <=> t(c) < t(d) \/ (t(c) = t(d) /\ c < d)
  BY DEF Precedes
<1>3. t(b) - t(x) <= Window
  OBVIOUS
<1> HIDE DEF t
<1>4. \A c, d, e \in L : Precedes(E, c, d) /\ Precedes(E, d, e) => Precedes(E, c, e)
  BY <1>1, <1>2
<1>5. \A c, d \in L : Precedes(E, c, d) => ~Precedes(E, d, c) /\ c # d
  BY <1>1, <1>2
<1>6. Precedes(E, x, b)
  BY <1>4
<1>7. Window \in Nat /\ t(x) <= t(a) /\ t(a) <= t(b)
  BY <1>1, <1>2, ChainsAssumption
<1>8. t(a) - t(x) <= Window /\ t(x) - t(a) <= Window /\ t(b) - t(a) <= Window /\ t(a) - t(b) <= Window
  BY <1>1, <1>3, <1>7
<1>9. a \in Adjacent(E, x, L \ {x})
  <2>1. \A c \in (L \ {x}) \ {a} : ~(Precedes(E, x, c) /\ Precedes(E, c, a))
    BY <1>4, <1>5
  <2>2. \A c \in (L \ {x}) \ {a} : ~(Precedes(E, c, x) /\ Precedes(E, a, c))
    BY <1>4, <1>5
  <2>3. a \in L \ {x}
    BY <1>5
  <2> QED
    BY <1>8, <2>1, <2>2, <2>3 DEF Adjacent, t
<1>10. b \in Adjacent(E, a, L \ {a})
  <2>1. \A c \in (L \ {a}) \ {b} : ~(Precedes(E, a, c) /\ Precedes(E, c, b))
    BY <1>4, <1>5
  <2>2. \A c \in (L \ {a}) \ {b} : ~(Precedes(E, c, a) /\ Precedes(E, b, c))
    BY <1>4, <1>5
  <2>3. b \in L \ {a}
    BY <1>5
  <2> QED
    BY <1>8, <2>1, <2>2, <2>3 DEF Adjacent, t
<1> QED
  BY <1>9, <1>10

\* Neighbours that a has left between them were in one chain with it.
LEMMA DetachNear ==
  ASSUME history \in Histories, NEW E, Steady(E), NEW a \in E.placed,
         ~Splits(E, Connected(E, a) \ {a}), NEW r, NEW R, NEW D, Removed(E, a, r, R, D)
  PROVE  Near(D)
<1>1. SUFFICES ASSUME NEW e \in Nat, NEW x \in Line(D, e),
                      NEW b \in Adjacent(D, x, Line(D, e) \ {x})
               PROVE  b \in Connected(D, x)
  BY DEF Near
<1>2. /\ D.placed = E.placed /\ D.copy = [E.copy EXCEPT ![a] = r]
      /\ D.lines = {l \in E.lines : l[2] # a} /\ D.edges = {p \in E.edges : a \notin p}
  BY DEF Removed, Renewed
<1>3. Holds(E) /\ Grouped(E, {}) /\ Near(E)
  BY DEF Steady
<1> DEFINE L == Line(E, e)
<1>4. Line(D, e) = L \ {a} /\ L \subseteq E.placed
  BY <1>2, <1>3 DEF Line, Holds
<1>5. /\ Timed(E, L) /\ L \subseteq Nat
      /\ \A c \in L \ {a} : V(D, c) = V(E, c)
  <2>1. \A c \in Alerts \ {a} : D.copy[c] = E.copy[c]
    BY <1>2, <1>3 DEF Holds, Engines
  <2> HIDE DEF L
  <2> QED
    BY <1>3, <1>4, <2>1, TimesKnown, ChainsAssumption DEF Timed, V
<1> HIDE DEF L
<1>6. /\ b \in L \ {a, x} /\ x \in L \ {a} /\ b # x
      /\ \A c \in L \ {a, x, b} : /\ ~(Precedes(E, x, c) /\ Precedes(E, c, b))
                                  /\ ~(Precedes(E, c, x) /\ Precedes(E, b, c))
      /\ V(E, x).time - V(E, b).time <= Window
      /\ V(E, b).time - V(E, x).time <= Window
  <2>1. b \in L \ {a, x} /\ x \in L \ {a} /\ b # x
    BY <1>1, <1>4 DEF Adjacent
  <2>2. ((L \ {a}) \ {x}) \ {b} = L \ {a, x, b}
    OBVIOUS
  <2>3. /\ \A c \in L \ {a, x, b} : /\ ~(Precedes(D, x, c) /\ Precedes(D, c, b))
                                    /\ ~(Precedes(D, c, x) /\ Precedes(D, b, c))
        /\ V(D, x).time - V(D, b).time <= Window
        /\ V(D, b).time - V(D, x).time <= Window
    BY <1>1, <1>4, <2>2 DEF Adjacent
  <2>4. \A c, d \in L \ {a} : Precedes(D, c, d) <=> Precedes(E, c, d)
    BY <1>5 DEF Precedes
  <2>5. V(D, x) = V(E, x) /\ V(D, b) = V(E, b)
    BY <1>5, <2>1
  <2>6. \A c \in L \ {a, x, b} : /\ ~(Precedes(E, x, c) /\ Precedes(E, c, b))
                                 /\ ~(Precedes(E, c, x) /\ Precedes(E, b, c))
    BY <2>1, <2>3, <2>4
  <2> QED
    BY <2>1, <2>3, <2>5, <2>6
<1>7. x \in E.placed /\ b \in E.placed
  BY <1>4, <1>6
\* Near each other before, or a between them.
<1>8. b \in Connected(E, x)
  <2>1. CASE b \in Adjacent(E, x, L \ {x})
    BY <1>3, <1>6, <2>1 DEF Near, L
  <2>2. CASE a \in L /\ Precedes(E, x, a) /\ Precedes(E, a, b)
    <3>1. \A c \in L \ {x, a, b} : ~(Precedes(E, x, c) /\ Precedes(E, c, b))
      BY <1>6
    <3>2. a \in Adjacent(E, x, L \ {x}) /\ b \in Adjacent(E, a, L \ {a})
      BY <1>5, <1>6, <2>2, <3>1, Between
    <3>3. a \in Connected(E, x) /\ b \in Connected(E, a)
      BY <1>3, <1>6, <2>2, <3>2 DEF Near, L
    <3> QED
      BY <1>7, <3>3, ComponentSame DEF Connected
  <2>3. CASE a \in L /\ Precedes(E, b, a) /\ Precedes(E, a, x)
    <3>1. \A c \in L \ {b, a, x} : ~(Precedes(E, b, c) /\ Precedes(E, c, x))
      BY <1>6
    <3>2. a \in Adjacent(E, b, L \ {b}) /\ x \in Adjacent(E, a, L \ {a})
      BY <1>5, <1>6, <2>3, <3>1, Between
    <3>3. a \in Connected(E, b) /\ x \in Connected(E, a)
      BY <1>3, <1>6, <2>3, <3>2 DEF Near, L
    <3>4. x \in Connected(E, b)
      BY <1>7, <3>3, ComponentSame DEF Connected
    <3>5. Connected(E, x) = Connected(E, b) /\ b \in Connected(E, b)
      BY <1>7, <3>4, ComponentSame, ComponentLeast DEF Connected
    <3> QED
      BY <3>5
  <2>4. b \in Adjacent(E, x, L \ {x}) \/ ~(\A c \in (L \ {x}) \ {b} :
             ~(Precedes(E, x, c) /\ Precedes(E, c, b)) /\ ~(Precedes(E, c, x) /\ Precedes(E, b, c)))
    BY <1>6 DEF Adjacent
  <2> QED
    BY <1>6, <2>1, <2>2, <2>3, <2>4
<1>9. x \in E.placed \ {a} /\ b \in Connected(E, x) \ {a}
  BY <1>6, <1>7, <1>8
<1> QED
  BY <1>2, <1>3, <1>9, DetachConnects DEF Steady

\* a, taken out and put back, has all that it was connected with.
LEMMA ReinsertMade ==
  ASSUME history \in Histories, NEW E, Steady(E), NEW a \in E.placed, NEW r \in 1 .. Newest(a),
         ~Splits(E, Connected(E, a) \ {a}), NEW R, Knows(E.res, R),
         NEW D, Removed(E, a, r, R, D),
         Connected(E, a) = {a} \/
           Links(D, a, Resolve(R, Payload(a, r)).entities) \cap Connected(E, a) # {}
  PROVE  Steady(Rescore(Regroup(InsertAlert(D, a), a)))
         /\ Grew(E, Rescore(Regroup(InsertAlert(D, a), a)))
<1>1. Holds(E) /\ IdsHeld(E) /\ Grouped(E, {}) /\ Near(E) /\ a \in Alerts
  BY DEF Steady, Holds, Engines
<1>2. Renewed(E, a, r, R, D)
  BY DEF Removed
<1>3. /\ Holds(D) /\ IdsHeld(D) /\ Assigned(D, {}) /\ Covered(D, {}) /\ D.copy[a] = r
  BY <1>1, <1>2, RenewedMade
<1>4. /\ D.placed = E.placed /\ D.buffer = E.buffer /\ D.res = R /\ D.chains = E.chains
      /\ D.of = E.of /\ D.anchor = E.anchor /\ D.count = E.count
      /\ D.lines = {l \in E.lines : l[2] # a} /\ D.edges = {p \in E.edges : a \notin p}
  BY DEF Removed, Renewed
<1>5. Near(D)
  BY DetachNear
<1>6. Fresh(D, a)
  BY <1>1, <1>3, <1>4 DEF Fresh, Holds
<1> DEFINE I == InsertAlert(D, a)
           q == Resolve(R, Payload(a, r))
<1>7. Holds(I) /\ Insertion(D, a, q, I)
  <2>1. V(D, a) = Payload(a, r)
    BY <1>3 DEF V
  <2> QED
    BY <1>3, <1>4, <1>6, <2>1, InsertHolds
<1> HIDE DEF I, q
<1>8. Near(I)
  BY <1>3, <1>5, <1>6, <1>7, InsertNear
<1>9. Assigned(I, {a}) /\ Covered(I, {a})
  <2>1. a \in D.placed /\ {} \cup {a} = {a}
    BY <1>4
  <2> QED
    BY <1>3, <1>7, <2>1, InsertGroups
<1>10. /\ I.placed = E.placed \cup {a} /\ I.of = E.of /\ I.chains = E.chains
       /\ I.anchor = E.anchor /\ I.count = E.count
       /\ I.edges = D.edges \cup {{a, b} : b \in Links(D, a, q.entities)}
  BY <1>4, <1>7 DEF Insertion
<1>11. I.placed = E.placed
  BY <1>10
<1>12. ASSUME NEW x \in E.placed \ {a}, NEW y \in Connected(E, x) \ {a}
       PROVE  y \in Connected(I, x)
  <2>1. y \in Connected(D, x)
    BY <1>1, <1>4, <1>12, DetachConnects
  <2>2. x \in D.placed
    BY <1>4
  <2> QED
    BY <1>7, <2>1, <2>2, InsertConnects
\* a is connected with the rest of its chain again.
<1>13. ASSUME NEW y \in Connected(E, a) \ {a}
       PROVE  y \in Connected(I, a)
  <2>1. PICK z \in Links(D, a, q.entities) : z \in Connected(E, a)
    BY <1>13 DEF q
  <2>2. z # a /\ z \in E.placed
    BY <1>3, <1>4, <2>1, LinksPlaced
  <2>3. Connected(E, z) = Connected(E, a)
    BY <2>1, ComponentSame DEF Connected
  <2>4. y \in Connected(I, z)
    BY <1>12, <1>13, <2>2, <2>3
  <2>5. {a, z} \in I.edges /\ {a, z} \subseteq I.placed
    BY <1>10, <1>11, <2>1, <2>2
  <2>6. z \in Connected(I, a)
    BY <2>5, EdgeConnects DEF Connected
  <2> QED
    BY <1>11, <2>4, <2>6, ComponentSame DEF Connected
<1>14. ASSUME NEW x \in E.placed, NEW y \in Connected(E, x)
       PROVE  y \in Connected(I, x)
  <2>1. CASE x = a /\ y = a
    BY <1>11, <2>1, ComponentLeast DEF Connected
  <2>2. CASE x = a /\ y # a
    BY <1>13, <1>14, <2>2
  <2>3. CASE x # a /\ y # a
    BY <1>12, <1>14, <2>3
  <2>4. CASE x # a /\ y = a
    <3>1. Connected(E, a) = Connected(E, x) /\ x \in Connected(E, x)
      BY <1>14, <2>4, ComponentSame, ComponentLeast DEF Connected
    <3>2. x \in Connected(I, a)
      BY <1>13, <2>4, <3>1
    <3>3. Connected(I, x) = Connected(I, a) /\ a \in Connected(I, a)
      BY <1>11, <3>2, ComponentSame, ComponentLeast DEF Connected
    <3> QED
      BY <2>4, <3>3
  <2> QED
    BY <2>1, <2>2, <2>3, <2>4
<1>15. Joined(I)
  BY <1>1, <1>10, <1>11, <1>14 DEF Grouped, Joined
<1>16. IdsHeld(I) /\ Grew(E, I)
  BY <1>1, <1>10, SameIds, GrewSame
<1> DEFINE P == Regroup(I, a)
<1>17. Regrouped(I, {}, P)
  <2>1. P = Assign(I, Connected(I, a))
    BY DEF Regroup, Connected
  <2>2. Grouped(I, {a}) /\ a \in I.placed /\ {a} \ {a} = {}
    BY <1>9, <1>11, <1>15 DEF Grouped
  <2> HIDE DEF P
  <2> QED
    BY <1>7, <1>16, <2>1, <2>2, AssignMade
<1> HIDE DEF P
<1>18. Steady(Rescore(P)) /\ Grew(I, Rescore(P))
  BY <1>8, <1>17, RegroupedSteady
<1>19. Grew(E, Rescore(P))
  BY <1>10, <1>18, GrewAfter
<1> QED
  BY <1>18, <1>19 DEF P, I

\* The links of a do not depend on the lines and links it had.
LEMMA LinksAlike ==
  ASSUME NEW D, NEW K, D.copy = K.copy, NEW a, NEW es,
         \A e \in es : Line(D, e) \ {a} = Line(K, e) \ {a}
  PROVE  Links(D, a, es) = Links(K, a, es)
<1>1. \A L : Adjacent(D, a, L) = Adjacent(K, a, L)
  BY DEF Adjacent, Precedes, V
<1> QED
  BY <1>1 DEF Links

\* _reevaluate
LEMMA ReevaluatedMade ==
  ASSUME history \in Histories, NEW E, Steady(E), NEW a \in E.placed, NEW r \in 1 .. Newest(a),
         NEW others, others = Connected(E, a) \ {a},
         NEW there, there = Resolve(E.res, Payload(a, r))
  PROVE  /\ Steady(Reevaluated(E, a, r, others, there).engine)
         /\ Grew(E, Reevaluated(E, a, r, others, there).engine)
<1>1. Holds(E) /\ IdsHeld(E) /\ Grouped(E, {}) /\ a \in Alerts /\ E.copy[a] \in 1 .. Newest(a)
  BY DEF Steady, Holds, Engines
<1>2. Payload(a, r) \in Payloads
  BY <1>1, PayloadIs
<1>3. Resolved(E.res, Payload(a, r), there)
  BY <1>1, <1>2, ResolveMade DEF Holds
<1>4. Knows(E.res, there.res) /\ Knows(E.res, E.res)
  BY <1>1, <1>3 DEF Knows, Resolved, Holds, Resolving, Parts, Numbers
<1> DEFINE K == Takes(E, a, r)
           live == {LiveId(E, E.of[b]) : b \in Links(K, a, there.entities)}
           F == [E EXCEPT !.res = there.res]
           C == Takes(Detach(E, a), a, r)
           D == Takes(Detach(F, a), a, r)
           Z == Reevaluated(E, a, r, others, there)
<1>5. Z = IF Splits(E, others) THEN ForReview(E)
          ELSE IF others = {} THEN Kept(Rescore(Regroup(InsertAlert(C, a), a)))
          ELSE IF LooseEnd(LiveId(E, E.of[a]), live) THEN ForReview(F)
          ELSE Kept(Rescore(Regroup(InsertAlert(D, a), a)))
  BY DEF Reevaluated
<1>6. /\ Removed(E, a, r, there.res, D) /\ Removed(E, a, r, E.res, C)
      /\ Renewed(E, a, E.copy[a], there.res, F) /\ Renewed(E, a, r, E.res, K)
  BY <1>1, DetachIs
<1>7. \A G : Kept(G).engine = G /\ ForReview(G).engine = G
  BY DEF Kept, ForReview
<1>8. F.lines = E.lines /\ F.edges = E.edges
  BY <1>1 DEF Holds, Engines
<1>9. K.lines = E.lines
  BY <1>1 DEF Takes, Holds, Engines
<1> HIDE DEF Z, C, D, F, K, live
<1>10. CASE Splits(E, others)
  <2>1. Z.engine = E
    BY <1>5, <1>7, <1>10
  <2> QED
    BY <2>1, GrewSame DEF Z
<1>11. CASE ~Splits(E, others) /\ others = {}
  <2>1. Z.engine = Rescore(Regroup(InsertAlert(C, a), a))
    BY <1>5, <1>7, <1>11
  <2>2. Connected(E, a) = {a}
    <3>1. a \in Connected(E, a)
      BY ComponentLeast DEF Connected
    <3> QED
      BY <1>11, <3>1
  <2>3. Steady(Z.engine) /\ Grew(E, Z.engine)
    BY <1>4, <1>6, <1>11, <2>1, <2>2, ReinsertMade
  <2> QED
    BY <2>3 DEF Z
<1>12. CASE ~Splits(E, others) /\ others # {} /\ LooseEnd(LiveId(E, E.of[a]), live)
  <2>1. Z.engine = F
    BY <1>5, <1>7, <1>12
  <2>2. V(F, a).time = V(E, a).time
    <3>1. F.copy[a] = E.copy[a]
      BY <1>1, <1>6 DEF Renewed, Holds, Engines
    <3> QED
      BY <3>1 DEF V
  <2>3. Steady(F) /\ Grew(E, F)
    BY <1>1, <1>4, <1>6, <1>8, <2>2, RenewedSteady
  <2> QED
    BY <2>1, <2>3 DEF Z
<1>13. CASE ~Splits(E, others) /\ others # {} /\ ~LooseEnd(LiveId(E, E.of[a]), live)
  <2>1. Z.engine = Rescore(Regroup(InsertAlert(D, a), a))
    BY <1>5, <1>7, <1>13
  <2>2. E.of[a] \in LiveIds(E) /\ Connected(E, a) = {b \in E.placed : E.of[b] = E.of[a]}
    BY <1>1, ChainConnected
  <2>3. E.of[a] \in live
    BY <1>13, <2>2, LiveIdIs DEF LooseEnd
  <2>4. PICK b \in Links(K, a, there.entities) : LiveId(E, E.of[b]) = E.of[a]
    BY <2>3 DEF live
  <2>5. Holds(K) /\ K.placed = E.placed
    BY <1>1, <1>4, <1>6, RenewedMade DEF Renewed
  <2>6. b \in E.placed
    BY <2>4, <2>5, LinksPlaced
  <2>7. b \in Connected(E, a)
    <3>1. E.of[b] \in LiveIds(E)
      BY <1>1, <2>6, ChainConnected
    <3>2. E.of[b] = E.of[a]
      BY <2>4, <3>1, LiveIdIs
    <3> QED
      BY <2>2, <2>6, <3>2
  \* An entity that is new has no timeline to be linked by.
  <2>8. Resolve(there.res, Payload(a, r)).entities = there.entities
    <3>1. PICK e \in there.entities : b \in Adjacent(K, a, Line(K, e) \ {a})
      BY <2>4 DEF Links
    <3>2. b \in Line(E, e)
      BY <1>9, <3>1 DEF Adjacent, Line
    <3>3. e \in Numbers(E.res)
      BY <1>1, <3>2 DEF Line, Holds
    <3> QED
      BY <1>3, <3>1, <3>3 DEF Resolved
  <2>9. Links(D, a, there.entities) = Links(K, a, there.entities)
    <3>1. D.copy = K.copy /\ D.lines = {l \in E.lines : l[2] # a}
      BY <1>6 DEF Removed, Renewed
    <3>2. \A e : Line(D, e) \ {a} = Line(K, e) \ {a}
      BY <1>9, <3>1 DEF Line
    <3> QED
      BY <3>1, <3>2, LinksAlike
  <2>10. Links(D, a, Resolve(there.res, Payload(a, r)).entities) \cap Connected(E, a) # {}
    BY <2>4, <2>7, <2>8, <2>9
  <2>11. Steady(Z.engine) /\ Grew(E, Z.engine)
    BY <1>4, <1>6, <1>13, <2>1, <2>10, ReinsertMade
  <2> QED
    BY <2>11 DEF Z
<1> QED
  BY <1>10, <1>11, <1>12, <1>13

\* revise
LEMMA RevisedMade ==
  ASSUME history \in Histories, NEW E, Steady(E), NEW a \in Alerts, NEW r \in 1 .. Newest(a)
  PROVE  Steady(Revised(E, a, r).engine) /\ Grew(E, Revised(E, a, r).engine)
<1>1. Holds(E) /\ IdsHeld(E) /\ Grouped(E, {}) /\ Near(E) /\ E.placed \cap E.buffer = {}
  BY DEF Steady, Holds
<1> DEFINE K == Takes(E, a, r)
           others == E.chains[E.of[a]].members \ {a}
           there == Resolve(E.res, Payload(a, r))
           Z == Revised(E, a, r)
<1>2. Z = IF a \in E.buffer THEN Kept(K)
          ELSE IF a \notin E.placed THEN Kept(E)
          ELSE IF ~Changed(V(E, a), Payload(a, r)) THEN Kept(K)
          ELSE IF ~Moves(V(E, a), Payload(a, r))
            THEN Kept(Rescore(Assign(K, E.chains[E.of[a]].members)))
          ELSE Reevaluated(E, a, r, others, there)
  BY DEF Revised
<1>3. \A G : Kept(G).engine = G
  BY DEF Kept
<1>4. Renewed(E, a, r, E.res, K) /\ Knows(E.res, E.res)
  BY <1>1, DetachIs DEF Knows, Holds
<1>5. K.lines = E.lines /\ K.edges = E.edges /\ K.placed = E.placed
  BY <1>1 DEF Takes, Holds, Engines
<1>6. V(K, a) = Payload(a, r)
  <2>1. K.copy[a] = r
    BY <1>4, <1>1 DEF Renewed, Holds, Engines
  <2> QED
    BY <2>1 DEF V
<1> HIDE DEF Z, K, others, there
<1>7. a \notin E.placed \/ ~Moves(V(E, a), Payload(a, r)) => Steady(K) /\ Grew(E, K)
  <2>1. ~Moves(V(E, a), Payload(a, r)) => V(K, a).time = V(E, a).time
    BY <1>6 DEF Moves
  <2> QED
    BY <1>4, <1>5, <2>1, RenewedSteady
<1>8. Grew(E, E)
  BY GrewSame
<1>9. CASE a \in E.buffer
  <2>1. Z.engine = K /\ a \notin E.placed
    BY <1>1, <1>2, <1>3, <1>9
  <2> QED
    BY <1>7, <2>1 DEF Z
<1>10. CASE a \notin E.buffer /\ a \notin E.placed
  <2>1. Z.engine = E
    BY <1>2, <1>3, <1>10
  <2> QED
    BY <1>8, <2>1 DEF Z
<1>11. CASE a \in E.placed /\ ~Changed(V(E, a), Payload(a, r))
  <2>1. Z.engine = K /\ ~Moves(V(E, a), Payload(a, r))
    BY <1>1, <1>2, <1>3, <1>11 DEF Changed
  <2> QED
    BY <1>7, <2>1 DEF Z
<1>12. CASE a \in E.placed /\ Changed(V(E, a), Payload(a, r)) /\ ~Moves(V(E, a), Payload(a, r))
  <2> DEFINE S == E.chains[E.of[a]].members
             P == Assign(K, S)
  <2>1. Z.engine = Rescore(P)
    BY <1>1, <1>2, <1>3, <1>12
  <2>2. S = Connected(K, a)
    BY <1>1, <1>5, <1>12, ChainConnected DEF Connected
  <2>3. Steady(K) /\ Grew(E, K) /\ a \in K.placed
    BY <1>5, <1>7, <1>12
  <2>4. P = Assign(K, Connected(K, a))
    BY <2>2
  <2> HIDE DEF S, P
  <2>5. Regrouped(K, {} \ {a}, P)
    BY <2>3, <2>4, AssignMade DEF Steady
  <2>6. Regrouped(K, {}, P)
    BY <2>5
  <2>7. Steady(Rescore(P)) /\ Grew(K, Rescore(P))
    BY <2>3, <2>6, RegroupedSteady DEF Steady
  <2>8. Grew(E, Rescore(P))
    BY <1>4, <2>7, GrewAfter DEF Renewed
  <2> QED
    BY <2>1, <2>7, <2>8 DEF Z
<1>13. CASE a \in E.placed /\ Changed(V(E, a), Payload(a, r)) /\ Moves(V(E, a), Payload(a, r))
  <2>1. Z = Reevaluated(E, a, r, others, there)
    BY <1>1, <1>2, <1>13
  <2>2. others = Connected(E, a) \ {a}
    BY <1>1, <1>13, ChainConnected DEF others
  <2>3. there = Resolve(E.res, Payload(a, r))
    BY DEF there
  <2>4. Steady(Z.engine) /\ Grew(E, Z.engine)
    BY <1>13, <2>1, <2>2, <2>3, ReevaluatedMade
  <2> QED
    BY <2>4 DEF Z
<1> QED
  BY <1>9, <1>10, <1>11, <1>12, <1>13

----------------------------------------------------------------------------
\* flush_stale and prune_before.

\* Entities that are found no more leave a resolver as it should be.
LEMMA FlushedResolves ==
  ASSUME NEW R, Resolving(R), NEW idle \in SUBSET R.alive
  PROVE  Resolving(Flushed(R, idle)) /\ Numbers(Flushed(R, idle)) = Numbers(R)
<1> DEFINE F == Flushed(R, idle)
           index == [i \in Ids |-> IF R.index[i] \in idle THEN 0 ELSE R.index[i]]
           leases == [i \in Ips |-> {l \in R.leases[i] : l[2] \in R.alive \ idle}]
<1>1. R \in Parts(R) /\ KindsApart(R)
  BY DEF Resolving
<1>2. /\ F \in [next : {R.next}, entity : {R.entity}, alive : {R.alive \ idle}, index : {index},
                leases : {leases}]
      /\ F.next = R.next /\ F.entity = R.entity /\ F.index = index /\ F.leases = leases
  <2>1. F = [R EXCEPT !.alive = R.alive \ idle, !.index = index, !.leases = leases]
    BY DEF Flushed
  <2> HIDE DEF F, index, leases
  <2> QED
    BY <1>1, <2>1 DEF Parts
<1>3. /\ index \in [Ids -> Numbers(R) \cup {0}]
      /\ leases \in [Ips -> SUBSET (Nat \X Numbers(R))]
  BY <1>1 DEF Parts
<1>4. /\ \A i \in Ids : index[i] = R.index[i] \/ index[i] = 0
      /\ \A ip \in Ips : leases[ip] \subseteq R.leases[ip]
  OBVIOUS
<1> HIDE DEF F, index, leases
<1>5. Numbers(F) = Numbers(R)
  BY <1>2 DEF Numbers
<1>6. F \in Parts(F)
  BY <1>1, <1>2, <1>3, <1>5 DEF Parts
<1>7. KindsApart(F)
  <2>1. HostIds \subseteq Ids /\ UserIds \subseteq Ids
    BY DEF Ids
  <2>2. ASSUME NEW j \in UserIds, F.index[j] # 0
        PROVE  /\ \A i \in HostIds : F.index[i] # F.index[j]
               /\ \A ip \in Ips : \A l \in F.leases[ip] : l[2] # F.index[j]
               /\ F.entity[F.index[j]].ids \cap HostIds = {}
    <3>1. F.index[j] = R.index[j] /\ R.index[j] # 0
      BY <1>2, <1>4, <2>1, <2>2
    <3> QED
      BY <1>1, <1>2, <1>4, <2>1, <3>1 DEF KindsApart
  <2>3. ASSUME NEW i \in HostIds, F.index[i] # 0
        PROVE  F.entity[F.index[i]].ids \cap UserIds = {}
    <3>1. F.index[i] = R.index[i] /\ R.index[i] # 0
      BY <1>2, <1>4, <2>1, <2>3
    <3> QED
      BY <1>1, <1>2, <3>1 DEF KindsApart
  <2> QED
    BY <2>2, <2>3 DEF KindsApart
<1> QED
  BY <1>5, <1>6, <1>7 DEF Resolving, F

\* They leave the correlator steady.
LEMMA FlushedSteady ==
  ASSUME NEW E, Steady(E), NEW idle \in SUBSET E.res.alive,
         NEW F, F = [E EXCEPT !.res = Flushed(@, idle)]
  PROVE  /\ Steady(F) /\ F.chains = E.chains /\ F.anchor = E.anchor
         /\ F.copy = E.copy /\ F.newest = E.newest
<1>1. Holds(E) /\ IdsHeld(E) /\ Grouped(E, {}) /\ Near(E) /\ E \in Engines(E)
  BY DEF Steady, Holds
<1> DEFINE R == Flushed(E.res, idle)
<1>2. Resolving(R) /\ Numbers(R) = Numbers(E.res)
  BY <1>1, FlushedResolves DEF Holds
<1> HIDE DEF R
<1>3. F \in [copy : {E.copy}, buffer : {E.buffer}, newest : {E.newest}, placed : {E.placed},
             res : {R}, about : {E.about}, primary : {E.primary}, lines : {E.lines},
             edges : {E.edges}, chains : {E.chains}, of : {E.of}, anchor : {E.anchor},
             count : {E.count}]
  <2>1. F = [E EXCEPT !.res = R]
    BY DEF R
  <2> QED
    BY <1>1, <2>1 DEF Engines
<1>4. /\ F.copy = E.copy /\ F.buffer = E.buffer /\ F.newest = E.newest
      /\ F.placed = E.placed /\ F.res = R /\ F.about = E.about /\ F.primary = E.primary
      /\ F.lines = E.lines /\ F.edges = E.edges /\ F.chains = E.chains /\ F.of = E.of
      /\ F.anchor = E.anchor /\ F.count = E.count
  BY <1>3
<1>5. Holds(F)
  <2>1. F \in Engines(F)
    BY <1>1, <1>3, <1>4 DEF Engines
  <2> QED
    BY <1>1, <1>2, <1>4, <2>1 DEF Holds
<1>6. LiveIds(F) = LiveIds(E) /\ \A a : Connected(F, a) = Connected(E, a)
  BY <1>4 DEF LiveIds, Connected
<1>7. Grouped(F, {})
  <2>1. Assigned(F, {})
    BY <1>1, <1>4, <1>6 DEF Grouped, Assigned
  <2>2. Joined(F)
    BY <1>1, <1>4, <1>6 DEF Grouped, Joined
  <2>3. Covered(F, {})
    BY <1>1, <1>4, <1>6 DEF Grouped, Covered
  <2> QED
    BY <2>1, <2>2, <2>3 DEF Grouped
<1>8. Near(F)
  <2>1. \A e : Line(F, e) = Line(E, e)
    BY <1>4 DEF Line
  <2>2. \A a, L : Adjacent(F, a, L) = Adjacent(E, a, L)
    BY <1>4 DEF Adjacent, Precedes, V
  <2> QED
    BY <1>1, <1>6, <2>1, <2>2 DEF Near
<1>9. IdsHeld(F)
  BY <1>1, <1>4, SameIds
<1> QED
  BY <1>4, <1>5, <1>7, <1>8, <1>9 DEF Steady

\* The alerts of chains.
MembersOf(E, ended) == UNION {E.chains[c].members : c \in ended}

\* P is E without the ended chains and their alerts, the gone.
Parted(E, ended, gone, P) ==
  /\ P \in [copy : [Alerts -> Nat], buffer : {E.buffer}, newest : {E.newest},
            placed : {E.placed \ gone}, res : {E.res}, about : [Alerts -> SUBSET Nat],
            primary : [Alerts -> Nat], lines : SUBSET E.lines, edges : SUBSET E.edges,
            chains : {P.chains}, of : [Alerts -> IdSet], anchor : {E.anchor}, count : {E.count}]
  /\ \A a \in Alerts \ gone : /\ P.copy[a] = E.copy[a] /\ P.primary[a] = E.primary[a]
                              /\ P.of[a] = E.of[a]
  /\ \A a \in gone : P.of[a] = NoId
  /\ P.lines = {l \in E.lines : l[2] \notin gone}
  /\ P.edges = {p \in E.edges : p \cap gone = {}}
  /\ DOMAIN P.chains = {c \in DOMAIN E.chains : c \notin ended /\ E.chains[c].merged \notin ended}
  /\ P.chains = [c \in DOMAIN P.chains |-> E.chains[c]]

\* prune_before makes such a correlator.
LEMMA DroppedIs ==
  ASSUME NEW E, Holds(E), NEW ended, NEW gone \in SUBSET Alerts
  PROVE  Parted(E, ended, gone, Dropped(E, ended, gone))
<1> DEFINE copy == [a \in Alerts |-> IF a \in gone THEN 0 ELSE E.copy[a]]
           placed == E.placed \ gone
           about == [a \in Alerts |-> IF a \in gone THEN {} ELSE E.about[a]]
           primary == [a \in Alerts |-> IF a \in gone THEN 0 ELSE E.primary[a]]
           lines == {l \in E.lines : l[2] \notin gone}
           edges == {p \in E.edges : p \cap gone = {}}
           left == {c \in DOMAIN E.chains : c \notin ended /\ E.chains[c].merged \notin ended}
           chains == [c \in left |-> E.chains[c]]
           of == [a \in Alerts |-> IF a \in gone THEN NoId ELSE E.of[a]]
           P == Dropped(E, ended, gone)
<1>1. E \in Engines(E)
  BY DEF Holds
<1>2. P = [E EXCEPT !.copy = copy, !.placed = placed, !.about = about, !.primary = primary,
                    !.lines = lines, !.edges = edges, !.chains = chains, !.of = of]
  BY DEF Dropped
<1>3. NoId \in IdSet
  BY DEF NoId, IdSet
<1>4. /\ copy \in [Alerts -> Nat] /\ about \in [Alerts -> SUBSET Nat]
      /\ primary \in [Alerts -> Nat] /\ of \in [Alerts -> IdSet]
  BY <1>1, <1>3 DEF Engines
<1>5. /\ \A a \in Alerts \ gone : copy[a] = E.copy[a] /\ primary[a] = E.primary[a] /\ of[a] = E.of[a]
      /\ \A a \in gone : of[a] = NoId
  OBVIOUS
<1>6. DOMAIN chains = left /\ chains = [c \in DOMAIN chains |-> E.chains[c]]
  OBVIOUS
<1>7. lines \in SUBSET E.lines /\ edges \in SUBSET E.edges
  OBVIOUS
<1> HIDE DEF P, copy, placed, about, primary, lines, edges, chains, of
<1>8. /\ P \in [copy : {copy}, buffer : {E.buffer}, newest : {E.newest}, placed : {placed},
                res : {E.res}, about : {about}, primary : {primary}, lines : {lines},
                edges : {edges}, chains : {chains}, of : {of}, anchor : {E.anchor},
                count : {E.count}]
  BY <1>1, <1>2 DEF Engines
<1>9. /\ P.copy = copy /\ P.primary = primary /\ P.of = of /\ P.lines = lines
      /\ P.edges = edges /\ P.chains = chains
  BY <1>8
<1>10. P \in [copy : [Alerts -> Nat], buffer : {E.buffer}, newest : {E.newest},
              placed : {E.placed \ gone}, res : {E.res}, about : [Alerts -> SUBSET Nat],
              primary : [Alerts -> Nat], lines : SUBSET E.lines, edges : SUBSET E.edges,
              chains : {P.chains}, of : [Alerts -> IdSet], anchor : {E.anchor},
              count : {E.count}]
  BY <1>4, <1>7, <1>8, <1>9 DEF placed
<1>11. Parted(E, ended, gone, P)
  BY <1>5, <1>6, <1>9, <1>10 DEF Parted, lines, edges
<1> QED
  BY <1>11 DEF P

\* What is left is connected as it was, and its chains are as they were.
LEMMA PartedParts ==
  ASSUME NEW E, Steady(E), NEW ended \in SUBSET LiveIds(E),
         NEW gone, gone = MembersOf(E, ended),
         NEW P, Parted(E, ended, gone, P)
  PROVE  /\ gone \in SUBSET E.placed /\ \A a \in E.placed : a \in gone <=> E.of[a] \in ended
         /\ LiveIds(P) = LiveIds(E) \ ended
         /\ \A c \in LiveIds(P) : P.chains[c] = E.chains[c] /\ E.chains[c].members \cap gone = {}
         /\ \A a \in P.placed : Connected(P, a) = Connected(E, a)
<1>1. /\ Holds(E) /\ Grouped(E, {}) /\ LiveIds(E) \subseteq DOMAIN E.chains
      /\ NoId \notin DOMAIN E.chains
  BY DEF Steady, Holds, LiveIds
<1>2. \A c \in LiveIds(E) : E.chains[c].members = {a \in E.placed : E.of[a] = c}
  BY <1>1 DEF Grouped, Assigned
<1>3. gone \in SUBSET E.placed /\ \A a \in E.placed : a \in gone <=> E.of[a] \in ended
  BY <1>2 DEF MembersOf
<1>4. /\ DOMAIN P.chains = {c \in DOMAIN E.chains : c \notin ended /\ E.chains[c].merged \notin ended}
      /\ \A c \in DOMAIN P.chains : P.chains[c] = E.chains[c]
      /\ P.placed = E.placed \ gone /\ P.edges = {p \in E.edges : p \cap gone = {}}
  BY DEF Parted
<1>5. LiveIds(P) = LiveIds(E) \ ended
  <2>1. NoId \notin ended
    BY <1>1
  <2> QED
    BY <1>4, <2>1 DEF LiveIds
<1>6. \A c \in LiveIds(P) : P.chains[c] = E.chains[c] /\ E.chains[c].members \cap gone = {}
  <2>1. ASSUME NEW c \in LiveIds(P)
        PROVE  P.chains[c] = E.chains[c] /\ E.chains[c].members \cap gone = {}
    <3>1. c \in LiveIds(E) \ ended /\ c \in DOMAIN P.chains
      BY <1>5 DEF LiveIds
    <3> QED
      BY <1>2, <1>3, <1>4, <3>1
  <2> QED
    BY <2>1
<1>7. \A p \in E.edges : p \subseteq E.placed /\ \A a, b \in p : E.of[a] = E.of[b]
  BY <1>1 DEF Holds, Grouped, Covered
<1>8. ASSUME NEW a \in P.placed
      PROVE  Connected(P, a) = Connected(E, a)
  <2>1. P.placed \subseteq E.placed /\ P.edges \subseteq E.edges /\ a \in E.placed
    BY <1>4
  <2>2. Connected(P, a) \subseteq Connected(E, a)
    BY <2>1, ComponentGrows DEF Connected
  <2> DEFINE T == Connected(P, a)
  <2>3. T \in SUBSET P.placed /\ a \in T /\ Closed(P.edges, P.placed, T)
    BY ComponentLeast DEF Connected
  <2> HIDE DEF T
  \* A link of what is left is of one chain, so it is left.
  <2>4. Closed(E.edges, E.placed, T)
    <3>1. ASSUME NEW p \in E.edges, NEW x \in p, x \in T
          PROVE  p \subseteq T
      <4>1. x \in E.placed /\ x \notin gone /\ p \subseteq E.placed
        BY <1>4, <1>7, <2>3, <3>1
      <4>2. p \cap gone = {}
        BY <1>3, <1>7, <4>1
      <4>3. p \in P.edges /\ p \subseteq P.placed
        BY <1>4, <4>1, <4>2
      <4> QED
        BY <2>3, <3>1, <4>3 DEF Closed
    <3> QED
      BY <3>1 DEF Closed
  <2>5. Connected(E, a) \subseteq T
    <3>1. T \in SUBSET E.placed
      BY <2>1, <2>3
    <3> QED
      BY <2>1, <2>3, <2>4, <3>1, ComponentLeast DEF Connected
  <2> QED
    BY <2>2, <2>5 DEF T
<1> QED
  BY <1>3, <1>5, <1>6, <1>8

\* Whoever comes next after a on a timeline, near in time, is not after b.
LEMMA NextIs ==
  ASSUME NEW E, NEW L \in SUBSET Alerts, Timed(E, L), NEW a \in L, NEW b \in L,
         Precedes(E, a, b), V(E, b).time - V(E, a).time <= Window
  PROVE  \E x \in L : /\ x \in Adjacent(E, a, L \ {a}) /\ Precedes(E, a, x)
                      /\ x = b \/ Precedes(E, x, b)
<1> DEFINE t(c) == V(E, c).time
           S == {c \in L : Precedes(E, a, c)}
<1>1. \A c \in L : t(c) \in Nat /\ c \in Nat
  BY ChainsAssumption DEF Timed
<1>2. \A c, d : Precedes(E, c, d) <=> t(c) < t(d) \/ (t(c) = t(d) /\ c < d)
  BY DEF Precedes
<1>3. S \in SUBSET Alerts /\ S # {} /\ Timed(E, S) /\ b \in S
  BY DEF Timed
<1>4. PICK x \in S : \A c \in S \ {x} : Precedes(E, x, c)
  <2> HIDE DEF S
  <2> QED
    BY <1>3, FirstIs DEF Leads
<1>5. x \in L /\ Precedes(E, a, x) /\ (x = b \/ Precedes(E, x, b))
  BY <1>3, <1>4
<1>6. t(b) - t(a) <= Window
  OBVIOUS
<1> HIDE DEF t
<1>7. \A c, d \in L : Precedes(E, c, d) => ~Precedes(E, d, c) /\ c # d
  BY <1>1, <1>2
<1>8. \A c \in (L \ {a}) \ {x} : ~(Precedes(E, a, c) /\ Precedes(E, c, x))
  BY <1>4, <1>5, <1>7
<1>9. \A c \in (L \ {a}) \ {x} : ~(Precedes(E, c, a) /\ Precedes(E, x, c))
  <2>1. \A c, d, e \in L : Precedes(E, c, d) /\ Precedes(E, d, e) => Precedes(E, c, e)
    BY <1>1, <1>2
  <2> QED
    BY <1>5, <1>7, <2>1
<1>10. t(a) <= t(x) /\ t(x) <= t(b)
  BY <1>1, <1>2, <1>5
<1>11. Window \in Nat
  BY ChainsAssumption
<1>12. t(a) - t(x) <= Window /\ t(x) - t(a) <= Window
  BY <1>1, <1>5, <1>6, <1>10, <1>11
<1>13. x \in L \ {a}
  BY <1>5, <1>7
<1> QED
  BY <1>5, <1>8, <1>9, <1>12, <1>13 DEF Adjacent, t

\* Those that are neighbours once others have left were in one chain before.
LEMMA PartedNear ==
  ASSUME history \in Histories, NEW E, Steady(E), NEW ended \in SUBSET LiveIds(E),
         NEW gone, gone = MembersOf(E, ended),
         NEW P, Parted(E, ended, gone, P)
  PROVE  Near(P)
<1>1. Holds(E) /\ Grouped(E, {}) /\ Near(E)
  BY DEF Steady
<1>2. /\ gone \in SUBSET E.placed /\ \A a \in E.placed : a \in gone <=> E.of[a] \in ended
      /\ \A a \in P.placed : Connected(P, a) = Connected(E, a)
  BY PartedParts
<1>3. /\ P.placed = E.placed \ gone /\ P.lines = {l \in E.lines : l[2] \notin gone}
      /\ E.placed \in SUBSET Alerts
      /\ \A a \in Alerts \ gone : P.copy[a] = E.copy[a]
  BY <1>1 DEF Parted, Holds, Engines
<1>4. \A a \in P.placed : V(P, a) = V(E, a)
  BY <1>3 DEF V
<1>5. \A e : Line(P, e) = Line(E, e) \ gone /\ Line(E, e) \subseteq E.placed
  BY <1>1, <1>3 DEF Line, Holds
\* b is after a.
<1>6. ASSUME NEW e \in Nat, NEW a \in Line(P, e), NEW b \in Adjacent(P, a, Line(P, e) \ {a}),
             Precedes(P, a, b)
      PROVE  b \in Connected(P, a)
  <2> DEFINE L == Line(E, e)
  <2>1. L \in SUBSET Alerts /\ Timed(E, L)
    BY <1>1, <1>3, <1>5, TimesKnown DEF Timed
  <2>2. a \in L \ gone /\ b \in L \ gone /\ a \in P.placed /\ b \in P.placed
    BY <1>3, <1>5, <1>6 DEF Adjacent
  <2>3. V(E, b).time - V(E, a).time <= Window /\ Precedes(E, a, b)
    BY <1>4, <1>6, <2>2 DEF Adjacent, Precedes
  <2>4. PICK x \in L : /\ x \in Adjacent(E, a, L \ {a}) /\ Precedes(E, a, x)
                       /\ x = b \/ Precedes(E, x, b)
    <3> HIDE DEF L
    <3> QED
      BY <2>1, <2>2, <2>3, NextIs
  <2>5. x \in Connected(E, a) /\ a \in E.placed
    BY <1>1, <1>3, <2>2, <2>4 DEF Near
  <2>6. x \in E.placed /\ E.of[x] = E.of[a]
    BY <1>1, <2>5, ChainConnected
  <2>7. x \in Line(P, e) \ {a} /\ x \in P.placed
    <3>1. x \notin gone
      BY <1>2, <2>2, <2>5, <2>6
    <3> QED
      BY <1>3, <1>5, <2>4, <2>6, <3>1 DEF Adjacent
  <2>8. Precedes(P, a, x) /\ (x = b \/ Precedes(P, x, b))
    BY <1>4, <2>2, <2>4, <2>7 DEF Precedes
  <2>9. x = b
    BY <1>6, <2>7, <2>8 DEF Adjacent
  <2> QED
    BY <1>2, <2>2, <2>5, <2>9
<1>7. ASSUME NEW e \in Nat, NEW a \in Line(P, e), NEW b \in Adjacent(P, a, Line(P, e) \ {a})
      PROVE  b \in Connected(P, a)
  <2>1. b \in Line(P, e) /\ a # b /\ a \in Adjacent(P, b, Line(P, e) \ {b})
    BY <1>7, AdjacentBoth
  <2>2. a \in P.placed /\ b \in P.placed /\ a \in E.placed /\ b \in E.placed
    BY <1>3, <1>5, <1>7, <2>1
  <2>3. Precedes(P, a, b) \/ Precedes(P, b, a)
    <3>1. V(P, a).time \in Nat /\ V(P, b).time \in Nat /\ a \in Nat /\ b \in Nat
      BY <1>1, <1>3, <1>4, <2>2, TimesKnown, ChainsAssumption DEF Timed
    <3> QED
      BY <2>1, <3>1 DEF Precedes
  <2>4. CASE Precedes(P, b, a)
    <3>1. a \in Connected(P, b)
      BY <1>6, <2>1, <2>4
    <3> QED
      BY <2>2, <3>1, ComponentSame, ComponentLeast DEF Connected
  <2> QED
    BY <1>6, <1>7, <2>3, <2>4
<1> QED
  BY <1>7 DEF Near

\* A steady correlator without some of its chains is steady.
LEMMA PartedSteady ==
  ASSUME history \in Histories, NEW E, Steady(E), NEW ended \in SUBSET LiveIds(E),
         NEW gone, gone = MembersOf(E, ended),
         NEW P, Parted(E, ended, gone, P)
  PROVE  Steady(P)
<1>1. Holds(E) /\ IdsHeld(E) /\ Grouped(E, {}) /\ E \in Engines(E)
  BY DEF Steady, Holds
<1>2. /\ gone \in SUBSET E.placed /\ \A a \in E.placed : a \in gone <=> E.of[a] \in ended
      /\ LiveIds(P) = LiveIds(E) \ ended
      /\ \A c \in LiveIds(P) : P.chains[c] = E.chains[c] /\ E.chains[c].members \cap gone = {}
      /\ \A a \in P.placed : Connected(P, a) = Connected(E, a)
  BY PartedParts
<1>3. /\ P.buffer = E.buffer /\ P.newest = E.newest /\ P.placed = E.placed \ gone
      /\ P.res = E.res /\ P.anchor = E.anchor /\ P.count = E.count
      /\ P.lines = {l \in E.lines : l[2] \notin gone}
      /\ P.edges = {p \in E.edges : p \cap gone = {}}
      /\ DOMAIN P.chains \subseteq DOMAIN E.chains
      /\ P.chains = [c \in DOMAIN P.chains |-> P.chains[c]]
      /\ \A c \in DOMAIN P.chains : P.chains[c] = E.chains[c]
      /\ \A a \in Alerts \ gone : /\ P.copy[a] = E.copy[a] /\ P.primary[a] = E.primary[a]
                                  /\ P.of[a] = E.of[a]
      /\ \A a \in gone : P.of[a] = NoId
  BY DEF Parted
<1>4. E.placed \in SUBSET Alerts /\ E.buffer \in SUBSET Alerts /\ E.placed \cap E.buffer = {}
  BY <1>1 DEF Holds, Engines
<1>5. P \in Engines(P)
  <2>1. /\ P.copy \in [Alerts -> Nat] /\ P.about \in [Alerts -> SUBSET Nat]
        /\ P.primary \in [Alerts -> Nat] /\ P.of \in [Alerts -> IdSet]
        /\ P \in [copy : {P.copy}, buffer : {P.buffer}, newest : {P.newest}, placed : {P.placed},
                  res : {P.res}, about : {P.about}, primary : {P.primary}, lines : {P.lines},
                  edges : {P.edges}, chains : {P.chains}, of : {P.of}, anchor : {P.anchor},
                  count : {P.count}]
    BY DEF Parted
  <2>2. /\ P.placed \in SUBSET Alerts /\ P.buffer \in SUBSET Alerts
        /\ P.lines \in SUBSET (Nat \X Alerts) /\ P.edges \in SUBSET SUBSET Alerts
        /\ P.anchor \in [Alerts -> IdSet]
    BY <1>1, <1>3 DEF Engines
  <2> QED
    BY <2>1, <2>2 DEF Engines
<1>6. Holds(P)
  <2>1. \A c \in DOMAIN P.chains : IsChain(P.chains[c])
    BY <1>1, <1>3 DEF Holds
  <2>2. \A a \in P.placed \cup P.buffer : P.copy[a] \in 1 .. Newest(a)
    BY <1>1, <1>2, <1>3, <1>4 DEF Holds
  <2>3. \A a \in P.placed : P.primary[a] \in Numbers(P.res)
    BY <1>1, <1>3, <1>4 DEF Holds
  <2>4. \A l \in P.lines : l[1] \in Numbers(P.res) /\ l[2] \in P.placed
    BY <1>1, <1>3 DEF Holds
  <2>5. \A p \in P.edges : p \subseteq P.placed
    BY <1>1, <1>3 DEF Holds
  <2> QED
    BY <1>1, <1>3, <1>5, <2>1, <2>2, <2>3, <2>4, <2>5 DEF Holds
<1>7. IdsHeld(P)
  <2>1. \A c : Issued(P, c) <=> Issued(E, c)
    BY <1>3 DEF Issued
  <2> QED
    BY <1>1, <1>2, <1>3, <2>1 DEF IdsHeld
<1>8. Assigned(P, {})
  <2>1. \A a \in Alerts \ P.placed : P.of[a] = NoId
    BY <1>1, <1>3 DEF Grouped, Assigned
  <2>2. \A a \in P.placed : P.of[a] = E.of[a] /\ E.of[a] \in LiveIds(P)
    BY <1>1, <1>2, <1>3, <1>4 DEF Grouped, Assigned
  <2>3. \A c \in LiveIds(P) : P.chains[c].members = {a \in P.placed : P.of[a] = c}
    <3>1. ASSUME NEW c \in LiveIds(P)
          PROVE  P.chains[c].members = {a \in P.placed : P.of[a] = c}
      <4>1. P.chains[c].members = {a \in E.placed : E.of[a] = c} /\ c \notin ended
        BY <1>1, <1>2 DEF Grouped, Assigned
      <4> QED
        BY <1>2, <1>3, <2>2, <4>1
    <3> QED
      BY <3>1
  <2> QED
    BY <2>1, <2>2, <2>3 DEF Assigned
<1>9. \A a \in P.placed : P.of[a] = E.of[a] /\ a \in E.placed
  BY <1>3, <1>4
<1>10. Joined(P)
  <2>1. ASSUME NEW a \in P.placed, NEW b \in P.placed, P.of[a] = P.of[b], P.of[a] # NoId
        PROVE  b \in Connected(P, a)
    <3>1. b \in Connected(E, a)
      BY <1>1, <1>9, <2>1 DEF Grouped, Joined
    <3> QED
      BY <1>2, <3>1
  <2> QED
    BY <2>1 DEF Joined
<1>11. Covered(P, {})
  <2>1. ASSUME NEW p \in P.edges, NEW a \in p, NEW b \in p
        PROVE  P.of[a] = P.of[b]
    <3>1. a \in P.placed /\ b \in P.placed /\ p \in E.edges
      BY <1>3, <1>6 DEF Holds
    <3>2. E.of[a] = E.of[b]
      BY <1>1, <3>1 DEF Grouped, Covered
    <3> QED
      BY <1>9, <3>1, <3>2
  <2> QED
    BY <2>1 DEF Covered
<1>12. Near(P)
  BY PartedNear
<1> QED
  BY <1>6, <1>7, <1>8, <1>10, <1>11, <1>12 DEF Steady, Grouped

\* The cycle of the v1 poller: evaluate, flush_stale and prune_before.
LEMMA PollCycleMade ==
  ASSUME history \in Histories, NEW E, Steady(E), NEW idle \in SUBSET Evaluated(E).res.alive,
         NEW P, P = Pruned([Evaluated(E) EXCEPT !.res = Flushed(@, idle)])
  PROVE  Steady(P) /\ Follows(E, P)
<1> DEFINE G == Evaluated(E)
           F == [G EXCEPT !.res = Flushed(@, idle)]
<1>1. Steady(G) /\ Grew(E, G) /\ G.copy = E.copy /\ G.newest = E.newest
  BY EvaluatedMade
<1> HIDE DEF G
<1>2. /\ Steady(F) /\ F.chains = G.chains /\ F.anchor = G.anchor
      /\ F.copy = G.copy /\ F.newest = G.newest
  <2>1. idle \in SUBSET G.res.alive
    BY DEF G
  <2> HIDE DEF F
  <2>2. F = [G EXCEPT !.res = Flushed(@, idle)]
    BY DEF F
  <2> QED
    BY <1>1, <2>1, <2>2, FlushedSteady
<1>3. P = Pruned(F)
  BY DEF F, G
<1> HIDE DEF F
<1> DEFINE ended == Ended(F)
           gone == MembersOf(F, ended)
<1>4. P = Dropped(F, ended, gone)
  BY <1>3 DEF Pruned, MembersOf
<1>5. ended \in SUBSET LiveIds(F) /\ \A c \in ended : EndedBefore(F, c)
  BY DEF Ended
<1> HIDE DEF ended
<1>6. gone \in SUBSET Alerts
  <2>1. \A c \in LiveIds(F) : F.chains[c].members \in SUBSET Alerts
    BY <1>2 DEF Steady, Holds, LiveIds, IsChain
  <2> QED
    BY <1>5, <2>1 DEF MembersOf
<1>7. gone = MembersOf(F, ended)
  OBVIOUS
<1> HIDE DEF gone
<1>8. Parted(F, ended, gone, P)
  BY <1>2, <1>4, <1>6, DroppedIs DEF Steady
<1>9. Steady(P)
  BY <1>2, <1>5, <1>7, <1>8, PartedSteady
<1>10. /\ LiveIds(P) = LiveIds(F) \ ended
       /\ \A c \in LiveIds(P) : P.chains[c] = F.chains[c] /\ F.chains[c].members \cap gone = {}
  BY <1>2, <1>5, <1>7, <1>8, PartedParts
<1>11. /\ P.placed = F.placed \ gone /\ P.newest = F.newest /\ P.anchor = F.anchor
       /\ \A a \in Alerts \ gone : P.copy[a] = F.copy[a]
  BY <1>8 DEF Parted
<1>12. LiveIds(F) = LiveIds(G)
  BY <1>2 DEF LiveIds
<1>13. ASSUME NEW c \in LiveIds(E)
       PROVE  \/ \E d \in LiveIds(P) : E.chains[c].members \subseteq P.chains[d].members
              \/ Expires(E, c, P)
  <2>1. PICK d \in LiveIds(F) : E.chains[c].members \subseteq F.chains[d].members
    BY <1>1, <1>2, <1>12 DEF Grew, Keeps
  <2>2. CASE d \notin ended
    BY <1>10, <2>1, <2>2
  <2>3. CASE d \in ended
    <3>1. \A a \in F.chains[d].members : V(F, a).time + grace + ChainRetention < F.newest
      BY <1>5, <2>3 DEF EndedBefore
    <3>2. F.chains[d].members \subseteq gone
      BY <1>7, <2>3 DEF MembersOf
    <3>3. \A a : V(F, a) = V(E, a)
      BY <1>1, <1>2 DEF V
    <3> QED
      BY <1>11, <2>1, <3>1, <3>2, <3>3 DEF Expires
  <2> QED
    BY <2>2, <2>3
<1>14. \A a \in Alerts : E.anchor[a] # NoId => P.anchor[a] = E.anchor[a]
  BY <1>1, <1>2, <1>11 DEF Grew, Keeps
\* A chain that is left has its alerts in the order they had.
<1>15. ASSUME NEW d \in LiveIds(P) \ LiveIds(E)
       PROVE  BearsId(P, d)
  <2>1. d \in LiveIds(G) /\ P.chains[d].members = G.chains[d].members
    BY <1>2, <1>10, <1>12
  <2>2. BearsId(G, d)
    BY <1>1, <1>15, <2>1 DEF Grew
  <2> DEFINE S == P.chains[d].members
  <2>3. S \in SUBSET Alerts /\ S \cap gone = {}
    <3>1. S \in SUBSET Alerts
      BY <1>9 DEF Steady, Holds, LiveIds, IsChain
    <3> QED
      BY <1>10, <3>1
  <2> HIDE DEF S
  <2>4. \A a \in S : V(P, a) = V(G, a)
    BY <1>2, <1>11, <2>3 DEF V
  <2>5. \A a \in Alerts : Leads(P, a, S) => Leads(G, a, S)
    BY <2>4 DEF Leads, Precedes
  <2> QED
    BY <1>2, <1>11, <2>1, <2>2, <2>5 DEF BearsId, S
<1> QED
  BY <1>9, <1>13, <1>14, <1>15 DEF Follows

\* A correlator that grew follows the earlier one.
LEMMA GrewFollows ==
  ASSUME NEW E, NEW F, Grew(E, F)
  PROVE  Follows(E, F)
BY DEF Grew, Keeps, Follows

----------------------------------------------------------------------------
\* The program.

\* The correlator of a program that has just started for the first time.
LEMMA EmptySteady == Steady(EmptyEngine)
<1> DEFINE E == EmptyEngine
<1>1. /\ E.copy = [a \in Alerts |-> 0] /\ E.buffer = {} /\ E.newest = 0 /\ E.placed = {}
      /\ E.res = NewResolver /\ E.about = [a \in Alerts |-> {}] /\ E.primary = [a \in Alerts |-> 0]
      /\ E.lines = {} /\ E.edges = {} /\ E.chains = <<>> /\ E.of = [a \in Alerts |-> NoId]
      /\ E.anchor = [a \in Alerts |-> NoId] /\ E.count = <<>>
      /\ E \in [copy : {E.copy}, buffer : {E.buffer}, newest : {E.newest}, placed : {E.placed},
                res : {E.res}, about : {E.about}, primary : {E.primary}, lines : {E.lines},
                edges : {E.edges}, chains : {E.chains}, of : {E.of}, anchor : {E.anchor},
                count : {E.count}]
  BY DEF EmptyEngine
<1> HIDE DEF E
<1>2. NoId \in IdSet
  BY DEF NoId, IdSet
<1>3. E \in Engines(E)
  BY <1>1, <1>2 DEF Engines
<1>4. Resolving(NewResolver)
  <2> DEFINE R == NewResolver
  <2>1. /\ R.next = 1 /\ R.entity = <<>> /\ R.alive = {} /\ R.index = [i \in Ids |-> 0]
        /\ R.leases = [i \in Ips |-> {}]
        /\ R \in [next : {R.next}, entity : {R.entity}, alive : {R.alive}, index : {R.index},
                  leases : {R.leases}]
    BY DEF NewResolver
  <2> HIDE DEF R
  <2>2. Numbers(R) = {}
    BY <2>1 DEF Numbers
  <2>3. R.entity \in [Numbers(R) -> [first : Nat, ids : SUBSET Ids]]
    <3>1. R.entity = [x \in {} |-> 0]
      BY <2>1
    <3> QED
      BY <2>2, <3>1
  <2>4. R.index \in [Ids -> Numbers(R) \cup {0}] /\ R.leases \in [Ips -> SUBSET (Nat \X Numbers(R))]
    BY <2>1
  <2>5. R \in Parts(R)
    <3>1. R.next \in Nat \ {0} /\ R.alive \in SUBSET Numbers(R)
      BY <2>1
    <3>2. R \in [next : {R.next}, entity : {R.entity}, alive : {R.alive}, index : {R.index},
                leases : {R.leases}]
      BY <2>1
    <3> QED
      BY <2>3, <2>4, <3>1, <3>2 DEF Parts
  <2>6. KindsApart(R)
    BY <2>1 DEF KindsApart, Ids
  <2> QED
    BY <2>5, <2>6 DEF Resolving, R
<1>5. DOMAIN E.chains = {} /\ DOMAIN E.count = {}
      /\ E.chains = [c \in {} |-> E.chains[c]] /\ E.count \in [{} -> Nat]
  <2>1. <<>> = [x \in {} |-> 0]
    OBVIOUS
  <2> QED
    BY <1>1, <2>1
<1>6. LiveIds(E) = {}
  BY <1>5 DEF LiveIds
<1>7. Holds(E)
  BY <1>1, <1>3, <1>4, <1>5 DEF Holds
<1>8. IdsHeld(E)
  BY <1>1, <1>5, <1>6 DEF IdsHeld
<1>9. Grouped(E, {})
  BY <1>1, <1>6 DEF Grouped, Assigned, Joined, Covered
<1>10. Near(E)
  BY <1>1 DEF Near, Line
<1> QED
  BY <1>7, <1>8, <1>9, <1>10 DEF Steady, E

\* An engine that holds its chains as E does, with other alerts in the buffer.
Buffered(E, F) ==
  /\ F \in [copy : [Alerts -> Nat], buffer : SUBSET Alerts, newest : {F.newest},
            placed : {E.placed}, res : {E.res}, about : {E.about}, primary : {E.primary},
            lines : {E.lines}, edges : {E.edges}, chains : {E.chains}, of : {E.of},
            anchor : [Alerts -> IdSet], count : {F.count}]
  /\ F.placed \cap F.buffer = {}
  /\ \A a \in F.buffer : F.copy[a] \in 1 .. Newest(a)
  /\ \A a \in E.placed : F.copy[a] = E.copy[a]
  /\ DOMAIN F.count \subseteq Nat /\ F.count \in [DOMAIN F.count -> Nat]

\* An alert taken into the buffer, or ids reloaded, keep the correlator steady.
LEMMA BufferedSteady ==
  ASSUME NEW E, Steady(E), NEW F, Buffered(E, F), IdsHeld(F)
  PROVE  Steady(F)
<1>1. /\ F.placed = E.placed /\ F.res = E.res /\ F.about = E.about /\ F.primary = E.primary
      /\ F.lines = E.lines /\ F.edges = E.edges /\ F.chains = E.chains /\ F.of = E.of
  BY DEF Buffered
<1>2. Holds(E) /\ Grouped(E, {}) /\ Near(E)
  BY DEF Steady
<1>3. F \in Engines(F)
  <2>1. E \in Engines(E)
    BY <1>2 DEF Holds
  <2>2. /\ F.copy \in [Alerts -> Nat] /\ F.buffer \in SUBSET Alerts
        /\ F.anchor \in [Alerts -> IdSet]
        /\ F \in [copy : {F.copy}, buffer : {F.buffer}, newest : {F.newest}, placed : {F.placed},
                  res : {F.res}, about : {F.about}, primary : {F.primary}, lines : {F.lines},
                  edges : {F.edges}, chains : {F.chains}, of : {F.of}, anchor : {F.anchor},
                  count : {F.count}]
    BY DEF Buffered
  <2>3. /\ F.placed \in SUBSET Alerts /\ F.about \in [Alerts -> SUBSET Nat]
        /\ F.primary \in [Alerts -> Nat] /\ F.lines \in SUBSET (Nat \X Alerts)
        /\ F.edges \in SUBSET SUBSET Alerts /\ F.of \in [Alerts -> IdSet]
    BY <1>1, <2>1 DEF Engines
  <2> QED
    BY <2>2, <2>3 DEF Engines
<1>4. Holds(F)
  <2>1. \A a \in F.placed \cup F.buffer : F.copy[a] \in 1 .. Newest(a)
    BY <1>1, <1>2 DEF Buffered, Holds
  <2> QED
    BY <1>1, <1>2, <1>3, <2>1 DEF Holds, Buffered
<1>5. LiveIds(F) = LiveIds(E) /\ \A a : Connected(F, a) = Connected(E, a)
  BY <1>1 DEF LiveIds, Connected
<1>6. Grouped(F, {})
  <2>1. Assigned(F, {})
    BY <1>1, <1>2, <1>5 DEF Grouped, Assigned
  <2>2. Joined(F)
    BY <1>1, <1>2, <1>5 DEF Grouped, Joined
  <2>3. Covered(F, {})
    BY <1>1, <1>2, <1>5 DEF Grouped, Covered
  <2> QED
    BY <2>1, <2>2, <2>3 DEF Grouped
<1>7. Near(F)
  <2>1. \A e : Line(F, e) = Line(E, e) /\ Line(E, e) \subseteq E.placed
    BY <1>1, <1>2 DEF Line, Holds
  <2>2. \A a \in E.placed : V(F, a) = V(E, a)
    BY DEF V, Buffered
  <2>3. ASSUME NEW e \in Nat, NEW x \in Line(F, e), NEW b \in Adjacent(F, x, Line(F, e) \ {x})
        PROVE  b \in Connected(F, x)
    <3> DEFINE S == Line(E, e) \ {x}
    <3>1. S \subseteq E.placed /\ x \in E.placed /\ b \in Adjacent(F, x, S) /\ b \in S
          /\ S \in SUBSET S
      BY <2>1, <2>3 DEF Adjacent
    <3>2. V(E, x) = V(F, x) /\ \A c \in S : V(E, c) = V(F, c)
      BY <2>2, <3>1
    <3> HIDE DEF S
    <3>3. b \in Adjacent(E, x, S)
      BY <3>1, <3>2, AdjacentFewer
    <3>4. b \in Connected(E, x)
      BY <1>2, <2>1, <2>3, <3>3 DEF Near, S
    <3> QED
      BY <1>5, <3>4
  <2> QED
    BY <2>3 DEF Near
<1> QED
  BY <1>4, <1>6, <1>7 DEF Steady

\* Pipeline.process
LEMMA ProcessedMade ==
  ASSUME NEW E, Steady(E), NEW known, NEW a \in Alerts, NEW r \in 1 .. Newest(a)
  PROVE  Steady(Processed(E, known, a, r)) /\ Grew(E, Processed(E, known, a, r))
<1> DEFINE t == IF Payload(a, r).time > E.newest THEN Payload(a, r).time ELSE E.newest
           F == [E EXCEPT !.copy[a] = r, !.buffer = @ \cup {a}, !.newest = t]
<1>1. Grew(E, E)
  BY GrewSame
<1>2. CASE Processed(E, known, a, r) = E
  BY <1>1, <1>2
<1>3. CASE Processed(E, known, a, r) # E
  <2>1. a \notin E.placed \cup E.buffer /\ Processed(E, known, a, r) = F
    BY <1>3 DEF Processed, Add
  <2> HIDE DEF t
  <2>2. E \in Engines(E) /\ Holds(E) /\ IdsHeld(E)
    BY DEF Steady, Holds
  <2>3. /\ F \in [copy : {[E.copy EXCEPT ![a] = r]}, buffer : {E.buffer \cup {a}}, newest : {t},
                  placed : {E.placed}, res : {E.res}, about : {E.about}, primary : {E.primary},
                  lines : {E.lines}, edges : {E.edges}, chains : {E.chains}, of : {E.of},
                  anchor : {E.anchor}, count : {E.count}]
    BY <2>2 DEF Engines
  <2> HIDE DEF F
  <2>4. /\ F.copy = [E.copy EXCEPT ![a] = r] /\ F.buffer = E.buffer \cup {a} /\ F.newest = t
        /\ F.placed = E.placed /\ F.chains = E.chains /\ F.of = E.of /\ F.anchor = E.anchor
        /\ F.count = E.count
    BY <2>3
  <2>5. r \in Nat
    BY DEF Newest
  <2>6. /\ F.copy \in [Alerts -> Nat] /\ F.copy[a] = r
        /\ \A b \in Alerts \ {a} : F.copy[b] = E.copy[b]
    BY <2>2, <2>4, <2>5 DEF Engines
  <2>7. E.placed \in SUBSET Alerts /\ E.buffer \in SUBSET Alerts /\ E.anchor \in [Alerts -> IdSet]
    BY <2>2 DEF Engines
  <2>8. Buffered(E, F)
    <3>1. F \in [copy : [Alerts -> Nat], buffer : SUBSET Alerts, newest : {F.newest},
                 placed : {E.placed}, res : {E.res}, about : {E.about}, primary : {E.primary},
                 lines : {E.lines}, edges : {E.edges}, chains : {E.chains}, of : {E.of},
                 anchor : [Alerts -> IdSet], count : {F.count}]
      BY <2>3, <2>4, <2>6, <2>7
    <3>2. F.placed \cap F.buffer = {}
      BY <2>1, <2>2, <2>4 DEF Holds
    <3>3. \A b \in F.buffer : F.copy[b] \in 1 .. Newest(b)
      BY <2>2, <2>4, <2>6, <2>7 DEF Holds
    <3>4. \A b \in E.placed : F.copy[b] = E.copy[b]
      BY <2>1, <2>6, <2>7
    <3> QED
      BY <2>2, <2>4, <3>1, <3>2, <3>3, <3>4 DEF Buffered, Holds
  <2>9. IdsHeld(F) /\ Grew(E, F)
    BY <2>2, <2>4, SameIds, GrewSame
  <2> QED
    BY <2>1, <2>8, <2>9, BufferedSteady
<1> QED
  BY <1>2, <1>3

\* A finite set of numbers that is not empty has a greatest.
LEMMA MaxIs ==
  ASSUME NEW S \in SUBSET Nat, S # {}, IsFiniteSet(S)
  PROVE  Max(S) \in S /\ \A n \in S : n <= Max(S)
<1> DEFINE Above(n) == {m \in S : n < m}
           N == {Cardinality(Above(n)) : n \in S}
<1>1. \A n \in S : IsFiniteSet(Above(n)) /\ Cardinality(Above(n)) \in Nat
  BY FS_Subset, FS_CardinalityType
<1>2. PICK n \in S : \A m \in S : Cardinality(Above(n)) <= Cardinality(Above(m))
  <2>1. N \in SUBSET Nat /\ N # {}
    BY <1>1
  <2> HIDE DEF Above
  <2>2. PICK k \in N : \A m \in N : k <= m
    BY <2>1, LeastNumber
  <2> QED
    BY <2>2
<1>3. ASSUME NEW m \in S, n < m
      PROVE  FALSE
  <2>1. Above(m) \in SUBSET Above(n)
    <3>1. ASSUME NEW k \in S, m < k
          PROVE  n < k
      <4>1. k \in Nat /\ m \in Nat /\ n \in Nat
        OBVIOUS
      <4> QED
        BY <1>3, <3>1, <4>1
    <3> QED
      BY <3>1
  <2>2. m \in Above(n) /\ m \notin Above(m)
    BY <1>3
  <2>3. Cardinality(Above(n)) <= Cardinality(Above(m))
    BY <1>2
  <2> HIDE DEF Above
  <2>4. Cardinality(Above(m)) <= Cardinality(Above(n))
        /\ Cardinality(Above(m)) # Cardinality(Above(n))
    BY <1>1, <2>1, <2>2, FS_Subset
  <2> QED
    BY <1>1, <2>3, <2>4
<1>4. \A m \in S : n >= m
  BY <1>3
<1>5. Max(S) \in S /\ \A m \in S : Max(S) >= m
  BY <1>4 DEF Max
<1> QED
  BY <1>5

\* load_id_state: the counters of the stored ids.
LEMMA CountsKnown ==
  ASSUME RowsInv
  PROVE  /\ DOMAIN CountsOf(rows) = {c[1] : c \in DOMAIN rows}
         /\ DOMAIN CountsOf(rows) \subseteq Nat
         /\ CountsOf(rows) \in [DOMAIN CountsOf(rows) -> Nat]
         /\ \A c \in DOMAIN rows : c[2] \in 1 .. CountsOf(rows)[c[1]]
<1> DEFINE names == {c[1] : c \in DOMAIN rows}
           Of(n) == {c \in DOMAIN rows : c[1] = n}
           Used(n) == {c[2] : c \in Of(n)}
<1>1. CountsOf(rows) = [n \in names |-> Max(Used(n))]
  BY DEF CountsOf
<1>2. \A c \in DOMAIN rows : c[1] \in Nat /\ c[2] \in Nat /\ c[2] # 0
  BY DEF RowsInv, IdSet
<1>3. IsFiniteSet(DOMAIN rows)
  <2> DEFINE f == [c \in DOMAIN rows |-> rows[c].anchor]
  <2>1. \A c \in DOMAIN rows : rows[c].anchor \in Alerts
    BY DEF RowsInv, IsRow
  <2>2. f \in [DOMAIN rows -> Alerts]
    BY <2>1
  <2>3. \A c, d \in DOMAIN rows : f[c] = f[d] => c = d
    BY DEF RowsInv
  <2>4. f \in Injection(DOMAIN rows, Alerts)
    BY <2>2, <2>3 DEF Injection, IsInjective
  <2> HIDE DEF f
  <2>5. IsFiniteSet(Alerts)
    BY ChainsAssumption
  <2> QED
    BY <2>4, <2>5, FS_Injection
<1>4. ASSUME NEW n \in names
      PROVE  Used(n) \in SUBSET Nat /\ Used(n) # {} /\ IsFiniteSet(Used(n))
  <2> DEFINE T == Of(n)
             U == Used(n)
             f == [c \in T |-> c[2]]
  <2>1. U \in SUBSET Nat /\ U # {}
    BY <1>2
  <2>2. f \in Surjection(T, U)
    <3>1. f \in [T -> U] /\ \A u \in U : \E c \in T : f[c] = u
      OBVIOUS
    <3> HIDE DEF f, T, U
    <3> QED
      BY <3>1 DEF Surjection
  <2>3. T \in SUBSET DOMAIN rows
    OBVIOUS
  <2> HIDE DEF f, T, U
  <2>4. IsFiniteSet(T)
    BY <1>3, <2>3, FS_Subset
  <2>5. IsFiniteSet(U)
    BY <2>2, <2>4, FS_Surjection
  <2> QED
    BY <2>1, <2>5 DEF U
<1>5. \A n \in names : Max(Used(n)) \in Used(n) /\ \A k \in Used(n) : k <= Max(Used(n))
  <2> HIDE DEF Used, names
  <2> QED
    BY <1>4, MaxIs
<1>6. names \subseteq Nat /\ \A n \in names : Max(Used(n)) \in Nat
  <2>1. names \subseteq Nat
    BY <1>2
  <2> HIDE DEF Used, names
  <2> QED
    BY <1>4, <1>5, <2>1
<1>7. ASSUME NEW c \in DOMAIN rows
      PROVE  c[2] \in 1 .. Max(Used(c[1]))
  <2>1. c[1] \in names /\ c[2] \in Used(c[1])
    OBVIOUS
  <2>2. c[2] <= Max(Used(c[1])) /\ Max(Used(c[1])) \in Nat
    <3> HIDE DEF Used, names
    <3> QED
      BY <1>5, <1>6, <2>1
  <2> HIDE DEF Used
  <2> QED
    BY <1>2, <2>2
<1>8. \A c \in DOMAIN rows : CountsOf(rows)[c[1]] = Max(Used(c[1]))
  BY <1>1
<1>9. /\ DOMAIN CountsOf(rows) = names
      /\ CountsOf(rows) \in [names -> Nat]
  <2> HIDE DEF Used, names
  <2> QED
    BY <1>1, <1>6
<1> HIDE DEF Used
<1> QED
  BY <1>6, <1>7, <1>8, <1>9

\* load_id_state: the anchors of the stored ids.
LEMMA AnchorsKnown ==
  ASSUME RowsInv
  PROVE  /\ AnchorsOf(rows) \in [Alerts -> IdSet]
         /\ \A c \in DOMAIN rows : AnchorsOf(rows)[rows[c].anchor] = c
         /\ \A a \in Alerts : AnchorsOf(rows)[a] # NoId =>
              AnchorsOf(rows)[a] \in DOMAIN rows /\ rows[AnchorsOf(rows)[a]].anchor = a
<1> DEFINE Has(a) == \E c \in DOMAIN rows : rows[c].anchor = a
           The(a) == CHOOSE c \in DOMAIN rows : rows[c].anchor = a
<1>1. AnchorsOf(rows) = [a \in Alerts |-> IF Has(a) THEN The(a) ELSE NoId]
  BY DEF AnchorsOf
<1>2. \A a : Has(a) => The(a) \in DOMAIN rows /\ rows[The(a)].anchor = a
  OBVIOUS
<1>3. /\ \A c \in DOMAIN rows : rows[c].anchor \in Alerts /\ c \in IdSet /\ c # NoId
      /\ \A c, d \in DOMAIN rows : rows[c].anchor = rows[d].anchor => c = d
  BY DEF RowsInv, IsRow
<1>4. \A c \in DOMAIN rows : Has(rows[c].anchor)
  OBVIOUS
<1> HIDE DEF Has, The
<1>5. \A a \in Alerts : AnchorsOf(rows)[a] = IF Has(a) THEN The(a) ELSE NoId
  BY <1>1
<1>6. NoId \in IdSet
  BY DEF NoId, IdSet
<1>7. AnchorsOf(rows) \in [Alerts -> IdSet]
  BY <1>1, <1>2, <1>3, <1>6
<1>8. \A c \in DOMAIN rows : AnchorsOf(rows)[rows[c].anchor] = c
  BY <1>2, <1>3, <1>4, <1>5
<1>9. \A a \in Alerts : AnchorsOf(rows)[a] # NoId =>
              AnchorsOf(rows)[a] \in DOMAIN rows /\ rows[AnchorsOf(rows)[a]].anchor = a
  BY <1>2, <1>5
<1> QED
  BY <1>7, <1>8, <1>9

\* start: the alerts of the replay window wait, the ids are known.
LEMMA RefilledMade ==
  ASSUME RowsInv, stored \in [Alerts -> Nat], NEW held \in SUBSET Alerts,
         \A a \in held : stored[a] \in 1 .. Newest(a)
  PROVE  /\ Steady(Refilled(Loaded, held)) /\ Refilled(Loaded, held).chains = <<>>
         /\ Refilled(Loaded, held).anchor = AnchorsOf(rows)
<1> DEFINE copy == [a \in Alerts |-> IF a \in held THEN stored[a] ELSE 0]
           newest == Max({0} \cup {Payload(a, stored[a]).time : a \in held})
           anchors == AnchorsOf(rows)
           counts == CountsOf(rows)
           E == EmptyEngine
           F == Refilled(Loaded, held)
<1>1. Loaded = [E EXCEPT !.anchor = anchors, !.count = counts]
  BY DEF Loaded
<1>2. F = [Loaded EXCEPT !.copy = copy, !.buffer = held, !.newest = newest]
  BY DEF Refilled
<1>3. copy \in [Alerts -> Nat] /\ \A a \in held : copy[a] = stored[a]
  OBVIOUS
<1>4. /\ anchors \in [Alerts -> IdSet]
      /\ \A a \in Alerts : anchors[a] # NoId => anchors[a] \in DOMAIN rows /\ rows[anchors[a]].anchor = a
  BY AnchorsKnown
<1>5. /\ DOMAIN counts = {c[1] : c \in DOMAIN rows}
      /\ DOMAIN counts \subseteq Nat /\ counts \in [DOMAIN counts -> Nat]
      /\ \A c \in DOMAIN rows : c[2] \in 1 .. counts[c[1]]
  BY CountsKnown
<1>6. Steady(E)
  BY EmptySteady
<1>7. E \in [copy : {E.copy}, buffer : {E.buffer}, newest : {E.newest}, placed : {E.placed},
             res : {E.res}, about : {E.about}, primary : {E.primary}, lines : {E.lines},
             edges : {E.edges}, chains : {E.chains}, of : {E.of}, anchor : {E.anchor},
             count : {E.count}]
      /\ E.placed = {} /\ E.chains = <<>>
  BY DEF EmptyEngine
<1> HIDE DEF copy, newest, anchors, counts, E, F
<1>8. Loaded \in [copy : {E.copy}, buffer : {E.buffer}, newest : {E.newest}, placed : {E.placed},
                  res : {E.res}, about : {E.about}, primary : {E.primary}, lines : {E.lines},
                  edges : {E.edges}, chains : {E.chains}, of : {E.of}, anchor : {anchors},
                  count : {counts}]
  BY <1>1, <1>7
<1>9. /\ F \in [copy : {copy}, buffer : {held}, newest : {newest}, placed : {E.placed},
                res : {E.res}, about : {E.about}, primary : {E.primary}, lines : {E.lines},
                edges : {E.edges}, chains : {E.chains}, of : {E.of}, anchor : {anchors},
                count : {counts}]
  BY <1>2, <1>8
<1>10. /\ F.copy = copy /\ F.buffer = held /\ F.newest = newest /\ F.placed = {}
       /\ F.anchor = anchors /\ F.count = counts /\ F.chains = <<>>
  BY <1>7, <1>9
<1>11. Buffered(E, F)
  <2>1. F \in [copy : [Alerts -> Nat], buffer : SUBSET Alerts, newest : {F.newest},
            placed : {E.placed}, res : {E.res}, about : {E.about}, primary : {E.primary},
            lines : {E.lines}, edges : {E.edges}, chains : {E.chains}, of : {E.of},
            anchor : [Alerts -> IdSet], count : {F.count}]
    BY <1>3, <1>4, <1>9, <1>10
  <2> QED
    BY <1>3, <1>5, <1>7, <1>10, <2>1 DEF Buffered
<1>12. IdsHeld(F)
  <2>1. DOMAIN F.chains = {} /\ LiveIds(F) = {}
    BY <1>10 DEF LiveIds
  <2>2. ASSUME NEW a \in Alerts, F.anchor[a] # NoId
        PROVE  Issued(F, F.anchor[a])
    <3> DEFINE c == anchors[a]
    <3>1. c \in DOMAIN rows /\ c \in IdSet
      BY <1>4, <1>10, <2>2
    <3>2. c[1] \in DOMAIN counts /\ c[2] \in 1 .. counts[c[1]]
      BY <1>5, <3>1
    <3> HIDE DEF c
    <3>3. Issued(F, c)
      BY <1>10, <3>1, <3>2 DEF Issued
    <3> QED
      BY <1>10, <3>3 DEF c
  <2>3. \A a, b \in Alerts : F.anchor[a] = F.anchor[b] /\ F.anchor[a] # NoId => a = b
    BY <1>4, <1>10
  <2> QED
    BY <2>1, <2>2, <2>3 DEF IdsHeld
<1>13. Steady(F) /\ F.anchor = anchors /\ F.chains = <<>>
  BY <1>6, <1>10, <1>11, <1>12, BufferedSteady
<1> QED
  BY <1>13 DEF F, anchors

\* While the history is the same, a steady correlator is steady in the next state.
LEMMA SteadyNext ==
  ASSUME history' = history, NEW E, M' = E, Steady(E)
  PROVE  Steady(M)'
<1>1. \A a, r : Payload(a, r)' = Payload(a, r)
  BY DEF Payload
<1>2. \A a : Newest(a)' = Newest(a)
  BY DEF Newest
<1>3. \A a : V(M, a)' = V(E, a)
  BY <1>1 DEF V
<1>4. \A a, b : Precedes(M, a, b)' <=> Precedes(E, a, b)
  BY <1>3 DEF Precedes
<1>5. \A a, S : Adjacent(M, a, S)' = Adjacent(E, a, S)
  BY <1>3, <1>4 DEF Adjacent
<1>6. \A a : Connected(M, a)' = Connected(E, a)
  BY DEF Connected
<1>7. \A e : Line(M, e)' = Line(E, e)
  BY DEF Line
<1>8. LiveIds(M)' = LiveIds(E)
  BY DEF LiveIds
<1>9. Holds(M)'
  BY <1>2 DEF Steady, Holds, Engines, IsChain
<1>10. IdsHeld(M)'
  BY <1>8 DEF Steady, IdsHeld, Issued
<1>11. Grouped(M, {})'
  BY <1>6, <1>8 DEF Steady, Grouped, Assigned, Joined, Covered
<1>12. Near(M)'
  BY <1>5, <1>6, <1>7 DEF Steady, Near
<1> QED
  BY <1>9, <1>10, <1>11, <1>12 DEF Steady

\* The ledger holds revisions that there are, of one history.
LEMMA QueueStep ==
  ASSUME QueueInv, [Next]_vars
  PROVE  QueueInv' /\ history' = history
<1>1. CASE UNCHANGED vars
  BY <1>1 DEF vars, queue, QueueInv, Newest
<1>2. ASSUME NEW a \in Alerts, Accept(a)
      PROVE  QueueInv' /\ history' = history
  <2>1. /\ stored[a] < Newest(a) /\ stored' = [stored EXCEPT ![a] = @ + 1]
        /\ history' = history /\ handled' = handled
    BY <1>2 DEF Accept
  <2>2. \A b : Newest(b)' = Newest(b)
    BY <2>1 DEF Newest
  <2>3. Newest(a) \in Nat /\ stored[a] + 1 <= Newest(a)
    <3>1. history[a] \in Seq(Payloads)
      BY ChainsAssumption DEF QueueInv
    <3> QED
      BY <2>1, <3>1 DEF QueueInv, Newest
  <2>4. stored' \in [Alerts -> Nat] /\ \A b \in Alerts : stored'[b] <= Newest(b)
    BY <2>1, <2>3 DEF QueueInv
  <2> QED
    BY <2>1, <2>2, <2>4 DEF QueueInv
<1>3. ASSUME NEW a \in Alerts, Detect(a)
      PROVE  QueueInv' /\ history' = history
  <2>1. handled' = [handled EXCEPT ![a] = 1] /\ history' = history /\ stored' = stored
    BY <1>3 DEF Detect
  <2> QED
    BY <2>1 DEF QueueInv, Newest
<1>4. ASSUME NEW a \in Alerts, Revise(a)
      PROVE  QueueInv' /\ history' = history
  <2>1. handled' = [handled EXCEPT ![a] = @ + 1] /\ history' = history /\ stored' = stored
    BY <1>4 DEF Revise
  <2> QED
    BY <2>1 DEF QueueInv, Newest
<1>5. CASE UNCHANGED <<history, stored, handled>>
  BY <1>5 DEF QueueInv, Newest
<1>6. ASSUME NEW a \in Alerts, Expire(a)
      PROVE  UNCHANGED <<history, stored, handled>>
  BY <1>6 DEF Expire
<1>7. ASSUME NEW a \in Alerts, Poll(a)
      PROVE  UNCHANGED <<history, stored, handled>>
  BY <1>7 DEF Poll, queue
<1>8. CASE Evaluate \/ PollCycle \/ Sync \/ Stop \/ Start \/ \E f \in flags : ResolveFlag(f)
  BY <1>5, <1>8 DEF Evaluate, PollCycle, Sync, Stop, Start, ResolveFlag, queue
<1> QED
  BY <1>1, <1>2, <1>3, <1>4, <1>5, <1>6, <1>7, <1>8 DEF Next

\* Every step leaves a steady correlator, in which what was connected still is
\* unless it has gone whole or the program stopped.
LEMMA CorrelatorStep ==
  ASSUME ChainsInv, [Next]_vars, NEW E, M' = E
  PROVE  /\ Steady(E) /\ (phase' = "stopped" => E = EmptyEngine)
         /\ phase' # "stopped" => Follows(M, E)
         /\ phase = "stopped" => LiveIds(E) = {}
<1> DEFINE Goal == /\ Steady(E) /\ (phase' = "stopped" => E = EmptyEngine)
                   /\ phase' # "stopped" => Follows(M, E)
                   /\ phase = "stopped" => LiveIds(E) = {}
<1>1. history \in Histories /\ Steady(M) /\ (phase = "stopped" => M = EmptyEngine)
  BY DEF ChainsInv, QueueInv, CorrelatorInv
<1>2. /\ \A a \in Alerts : stored[a] \in Nat /\ handled[a] \in Nat /\ stored[a] <= Newest(a)
      /\ \A a \in Alerts : Newest(a) \in Nat
  <2>1. \A a \in Alerts : history[a] \in Seq(Payloads)
    BY <1>1, ChainsAssumption
  <2> QED
    BY <2>1 DEF ChainsInv, QueueInv, Newest
<1> LiveIds(EmptyEngine) = {}
  <2>1. EmptyEngine.chains = <<>>
    BY DEF EmptyEngine
  <2> QED
    BY <2>1 DEF LiveIds
<1>3. CASE M' = M /\ (phase' = "stopped" => phase = "stopped")
  BY <1>1, <1>3, GrewSame, GrewFollows
<1>4. ASSUME NEW a \in Alerts, Detect(a)
      PROVE  Goal
  <2>1. E = Processed(M, seen, a, 1) /\ phase' = phase /\ phase # "stopped" /\ stored[a] > 0
    BY <1>4 DEF Detect, Undetected
  <2>2. 1 \in 1 .. Newest(a)
    BY <1>2, <2>1
  <2> QED
    BY <1>1, <2>1, <2>2, ProcessedMade, GrewFollows
<1>5. ASSUME NEW a \in Alerts, Revise(a)
      PROVE  Goal
  <2> DEFINE r == handled[a] + 1
  <2>1. /\ E = Revised(M, a, r).engine /\ phase' = phase /\ phase # "stopped"
        /\ handled[a] \in 1 .. stored[a] - 1
    BY <1>5 DEF Revise, Apply, Unrevised
  <2>2. r \in 1 .. Newest(a)
    BY <1>2, <2>1
  <2> HIDE DEF r
  <2> QED
    BY <1>1, <2>1, <2>2, RevisedMade, GrewFollows
<1>6. CASE Evaluate
  <2>1. E = Evaluated(M) /\ phase' = "writing" /\ phase = "idle"
    BY <1>6 DEF Evaluate
  <2> QED
    BY <1>1, <2>1, EvaluatedMade, GrewFollows
<1>7. CASE Stop
  BY <1>7, EmptySteady DEF Stop
<1>8. CASE Start
  <2> DEFINE held == {a \in Replay : ~Suppressed(Payload(a, stored[a]))}
  <2>1. E = Refilled(Loaded, held) /\ phase = "stopped" /\ phase' = "idle"
    BY <1>8 DEF Start
  <2>2. held \in SUBSET Alerts /\ \A a \in held : stored[a] \in 1 .. Newest(a)
    BY <1>2 DEF Replay
  <2> HIDE DEF held
  <2>3. Steady(E) /\ LiveIds(E) = {}
    <3>1. Steady(E) /\ E.chains = <<>>
      BY <2>1, <2>2, RefilledMade DEF ChainsInv, QueueInv
    <3> QED
      BY <3>1 DEF LiveIds
  <2>4. Follows(M, E)
    <3>1. M = EmptyEngine
      BY <1>1, <2>1
    <3>2. M.chains = <<>> /\ M.anchor = [a \in Alerts |-> NoId]
      BY <3>1 DEF EmptyEngine
    <3>3. LiveIds(M) = {}
      BY <3>2 DEF LiveIds
    <3> QED
      BY <2>3, <3>2, <3>3 DEF Follows
  <2> QED
    BY <2>1, <2>3, <2>4
<1>9. CASE UNCHANGED vars \/ Sync \/ (\E f \in flags : ResolveFlag(f))
           \/ \E a \in Alerts : Accept(a) \/ Expire(a)
  BY <1>3, <1>9 DEF vars, Sync, ResolveFlag, Accept, Expire, queue, store
<1>10. ASSUME NEW a \in Alerts, Poll(a)
       PROVE  Goal
  <2>1. E = Processed(M, {}, a, 1) /\ phase' = phase /\ phase # "stopped" /\ 1 \in 1 .. Newest(a)
    BY <1>2, <1>10 DEF Poll
  <2> QED
    BY <1>1, <2>1, ProcessedMade, GrewFollows
<1>11. CASE PollCycle
  <2>1. phase' = phase /\ phase # "stopped"
    BY <1>11 DEF PollCycle
  <2>2. PICK idle \in SUBSET Evaluated(M).res.alive :
          E = Pruned([Evaluated(M) EXCEPT !.res = Flushed(@, idle)])
    BY <1>11 DEF PollCycle
  <2>3. Steady(E) /\ Follows(M, E)
    BY <1>1, <2>2, PollCycleMade
  <2> QED
    BY <2>1, <2>3
<1> QED
  BY <1>4, <1>5, <1>6, <1>7, <1>8, <1>9, <1>10, <1>11 DEF Next

\* InvestigationStore.sync: every investigation holds its anchor.
LEMMA SyncRows ==
  ASSUME ChainsInv, Sync
  PROVE  RowsInv'
<1> DEFINE shown == [c \in DOMAIN rows \cup DOMAIN snapshot |->
                       IF c \in DOMAIN snapshot THEN Upserted(Row(c), snapshot[c], Open(c))
                       ELSE rows[c]]
<1>1. rows' = Marked(shown) /\ snapshot' = <<>> /\ phase' = "idle" /\ phase = "writing" /\ M' = M
  BY DEF Sync
<1>2. RowsInv /\ IdsHeld(M)
  BY DEF ChainsInv, CorrelatorInv, Steady
<1>3. ASSUME NEW c \in DOMAIN snapshot
      PROVE  Row(c).anchor \in Alerts /\ IsRow(Row(c)) /\ M.anchor[Row(c).anchor] = c /\ c # NoId
  <2>1. PICK a \in snapshot[c].members : a \in Alerts /\ M.anchor[a] = c /\ c # NoId
    BY <1>2, <1>3 DEF RowsInv
  <2>2. CASE c \in DOMAIN rows
    BY <1>1, <1>2, <2>1, <2>2 DEF Row, RowsInv, IsRow
  <2>3. CASE c \notin DOMAIN rows
    <3> DEFINE x == CHOOSE a0 \in Alerts \cup {0} :
                  \/ a0 # 0 /\ M.anchor[a0] = c
                  \/ a0 = 0 /\ \A b \in Alerts : M.anchor[b] # c
               k == Row(c)
    <3>1. k = [NoRow EXCEPT !.anchor = x]
      BY <2>3 DEF Row
    <3>2. a # 0
      BY <2>1, ChainsAssumption
    <3>3. x \in Alerts /\ M.anchor[x] = c
      BY <2>1, <3>2
    <3> HIDE DEF x, k
    <3>4. k.anchor = x /\ k \in [anchor : {x}, revision : {k.revision}, content : {k.content},
                                 open : {k.open}, merged : {k.merged}]
      BY <3>1 DEF NoRow
    <3> QED
      BY <2>1, <3>3, <3>4 DEF IsRow, k
  <2> QED
    BY <2>2, <2>3
<1>4. ASSUME NEW c \in DOMAIN snapshot
      PROVE  /\ IsRow(shown[c]) /\ shown[c].anchor = Row(c).anchor
             /\ shown[c].content = snapshot[c]
  <2> DEFINE k == Row(c)
             n == shown[c]
  <2>1. n = IF k.content = snapshot[c] /\ k.open = Open(c) THEN k
            ELSE [k EXCEPT !.revision = @ + 1, !.content = snapshot[c], !.open = Open(c)]
    BY <1>4 DEF Upserted, SameHash
  <2>2. IsRow(k)
    BY <1>3, <1>4
  <2> HIDE DEF k, n, shown
  <2>3. IsRow(n) /\ n.anchor = k.anchor /\ n.content = snapshot[c]
    BY <2>1, <2>2 DEF IsRow
  <2> QED
    BY <2>3 DEF k, n
<1>5. ASSUME NEW c \in DOMAIN shown
      PROVE  /\ IsRow(shown[c]) /\ shown[c].anchor \in shown[c].content.members
             /\ M.anchor[shown[c].anchor] = c /\ c \in IdSet /\ c # NoId /\ c[2] # 0
  <2>1. CASE c \in DOMAIN snapshot
    <3>1. /\ IsRow(shown[c]) /\ shown[c].anchor \in Alerts /\ M.anchor[shown[c].anchor] = c
          /\ c # NoId /\ shown[c].content = snapshot[c]
      BY <1>3, <1>4, <2>1
    <3>2. PICK a \in snapshot[c].members : a \in Alerts /\ M.anchor[a] = c
      BY <1>2, <2>1 DEF RowsInv
    <3> HIDE DEF shown
    <3>3. a = shown[c].anchor
      BY <1>2, <3>1, <3>2 DEF IdsHeld
    <3>4. Issued(M, c)
      BY <1>2, <3>1, <3>2 DEF IdsHeld
    <3> QED
      BY <3>1, <3>2, <3>3, <3>4 DEF Issued
  <2>2. CASE c \notin DOMAIN snapshot
    <3>1. c \in DOMAIN rows /\ shown[c] = rows[c]
      BY <1>5, <2>2
    <3> HIDE DEF shown
    <3> QED
      BY <1>1, <1>2, <3>1 DEF RowsInv
  <2> QED
    BY <2>1, <2>2
<1>6. DOMAIN rows' = DOMAIN shown
  BY <1>1 DEF Marked
<1>7. ASSUME NEW c \in DOMAIN shown
      PROVE  /\ IsRow(rows'[c]) /\ rows'[c].anchor = shown[c].anchor
             /\ rows'[c].content = shown[c].content
  <2> DEFINE k == shown[c]
             n == rows'[c]
  <2>1. n = IF c \in Merged(M) THEN [k EXCEPT !.merged = M.chains[c].merged] ELSE k
    BY <1>1, <1>7 DEF Marked
  <2>2. IsRow(k)
    BY <1>5, <1>7
  <2> HIDE DEF k, n, shown
  <2>3. IsRow(n) /\ n.anchor = k.anchor /\ n.content = k.content
    BY <2>1, <2>2 DEF IsRow
  <2> QED
    BY <2>3 DEF k, n
<1> HIDE DEF shown
<1>8. \A c \in DOMAIN rows' :
        /\ IsRow(rows'[c]) /\ rows'[c].anchor \in rows'[c].content.members
        /\ M.anchor[rows'[c].anchor] = c /\ c \in IdSet /\ c # NoId /\ c[2] # 0
  BY <1>5, <1>6, <1>7
<1>9. \A c, d \in DOMAIN rows' : rows'[c].anchor = rows'[d].anchor => c = d
  BY <1>8
<1>10. DOMAIN snapshot' = {}
  BY <1>1
<1> QED
  BY <1>1, <1>8, <1>9, <1>10 DEF RowsInv, IsRow, IdSet, NoId

\* Every step keeps the investigations with their anchors.
LEMMA RowsStep ==
  ASSUME ChainsInv, [Next]_vars, NEW E, M' = E, Steady(E), phase' # "stopped" => Follows(M, E)
  PROVE  RowsInv'
<1>1. RowsInv
  BY DEF ChainsInv
\* What is stored or on its way keeps its id as long as the program runs.
<1>2. CASE rows' = rows /\ snapshot' = snapshot /\ phase' = phase
  <2>1. /\ \A c \in DOMAIN rows : rows[c].anchor \in Alerts /\ c # NoId
        /\ phase # "stopped" => \A c \in DOMAIN rows : M.anchor[rows[c].anchor] = c
    BY <1>1 DEF RowsInv, IsRow
  <2>2. phase # "stopped" => \A a \in Alerts : M.anchor[a] # NoId => M'.anchor[a] = M.anchor[a]
    BY <1>2 DEF Follows
  <2>3. phase # "stopped" => \A c \in DOMAIN rows : M'.anchor[rows[c].anchor] = c
    BY <2>1, <2>2
  <2>4. phase = "stopped" => DOMAIN snapshot = {}
    BY <1>1 DEF RowsInv
  <2>5. ASSUME NEW c \in DOMAIN snapshot
        PROVE  c # NoId /\ \E a \in snapshot[c].members : a \in Alerts /\ M'.anchor[a] = c
    BY <1>1, <2>2, <2>4, <2>5 DEF RowsInv
  <2> QED
    BY <1>1, <1>2, <2>3, <2>5 DEF RowsInv, IsRow, IdSet, NoId
<1>3. CASE Evaluate
  <2>1. /\ snapshot' = [c \in LiveIds(E) |-> Summary(E, c)] /\ rows' = rows
        /\ phase = "idle" /\ phase' = "writing"
    BY <1>3 DEF Evaluate, store
  <2>2. ASSUME NEW c \in LiveIds(E)
        PROVE  /\ c # NoId
               /\ \E a \in Summary(E, c).members : a \in Alerts /\ E.anchor[a] = c
    <3>1. PICK a \in E.chains[c].members : E.anchor[a] = c
      BY DEF Steady, IdsHeld
    <3>2. c \in DOMAIN E.chains /\ IsChain(E.chains[c]) /\ c # NoId
      BY DEF LiveIds, Steady, Holds
    <3>3. a \in Alerts /\ Summary(E, c).members = E.chains[c].members
      BY <3>1, <3>2 DEF IsChain, Summary
    <3> QED
      BY <3>1, <3>2, <3>3
  <2>3. \A c \in DOMAIN snapshot' :
          c # NoId /\ \E a \in snapshot'[c].members : a \in Alerts /\ M'.anchor[a] = c
    BY <2>1, <2>2
  <2>4. \A c \in DOMAIN rows : E.anchor[rows[c].anchor] = c
    <3>1. \A c \in DOMAIN rows : /\ rows[c].anchor \in Alerts /\ c # NoId
                                 /\ M.anchor[rows[c].anchor] = c
      BY <1>1, <2>1 DEF RowsInv, IsRow
    <3> QED
      BY <2>1, <3>1 DEF Follows
  <2> QED
    BY <1>1, <2>1, <2>3, <2>4 DEF RowsInv, IsRow, IdSet, NoId
<1>4. CASE Sync
  BY <1>4, SyncRows
<1>5. CASE Stop
  <2>1. rows' = rows /\ snapshot' = <<>> /\ phase' = "stopped"
    BY <1>5 DEF Stop, store
  <2>2. DOMAIN snapshot' = {}
    BY <2>1
  <2> QED
    BY <1>1, <2>1, <2>2 DEF RowsInv, IsRow, IdSet, NoId
<1>6. CASE Start
  <2> DEFINE held == {a \in Replay : ~Suppressed(Payload(a, stored[a]))}
  <2>1. /\ E = Refilled(Loaded, held) /\ phase = "stopped" /\ phase' = "idle"
        /\ rows' = rows /\ snapshot' = snapshot
    BY <1>6 DEF Start, store
  <2>2. stored \in [Alerts -> Nat] /\ held \in SUBSET Alerts
        /\ \A a \in held : stored[a] \in 1 .. Newest(a)
    <3>1. \A a \in Alerts : Newest(a) \in Nat /\ stored[a] \in Nat /\ stored[a] <= Newest(a)
      <4>1. \A a \in Alerts : history[a] \in Seq(Payloads)
        BY ChainsAssumption DEF ChainsInv, QueueInv
      <4> QED
        BY <4>1 DEF ChainsInv, QueueInv, Newest
    <3> QED
      BY <3>1 DEF Replay, ChainsInv, QueueInv
  <2> HIDE DEF held
  <2>3. E.anchor = AnchorsOf(rows)
    BY <1>1, <2>1, <2>2, RefilledMade
  <2>4. \A c \in DOMAIN rows : E.anchor[rows[c].anchor] = c
    BY <1>1, <2>3, AnchorsKnown
  <2>5. DOMAIN snapshot' = {} /\ snapshot' = <<>>
    BY <1>1, <2>1 DEF RowsInv
  <2> QED
    BY <1>1, <2>1, <2>4, <2>5 DEF RowsInv, IsRow, IdSet, NoId
<1>7. CASE UNCHANGED vars \/ (\E f \in flags : ResolveFlag(f))
           \/ PollCycle
           \/ \E a \in Alerts : Accept(a) \/ Expire(a) \/ Detect(a) \/ Revise(a) \/ Poll(a)
  BY <1>2, <1>7 DEF vars, ResolveFlag, PollCycle, Accept, Expire, Detect, Revise, Poll, store
<1> QED
  BY <1>3, <1>4, <1>5, <1>6, <1>7 DEF Next

\* The program starts with an empty correlator and no investigations.
LEMMA ChainsInit == Init => ChainsInv
<1> SUFFICES ASSUME Init PROVE ChainsInv
  OBVIOUS
<1>1. \A a \in Alerts : Newest(a) \in Nat
  <2>1. \A a \in Alerts : history[a] \in Seq(Payloads)
    BY ChainsAssumption DEF Init
  <2> QED
    BY <2>1 DEF Newest
<1>2. QueueInv
  BY <1>1 DEF Init, QueueInv
<1>3. CorrelatorInv
  BY EmptySteady DEF Init, CorrelatorInv
<1>4. RowsInv
  <2>1. rows = <<>> /\ snapshot = <<>>
    BY DEF Init
  <2>2. DOMAIN rows = {} /\ DOMAIN snapshot = {}
    BY <2>1
  <2> QED
    BY <2>1, <2>2 DEF RowsInv
<1> QED
  BY <1>2, <1>3, <1>4 DEF ChainsInv

\* Every step keeps the invariant of the program, and lets chains only grow
\* or go whole.
LEMMA ChainsStep ==
  ASSUME ChainsInv, [Next]_vars
  PROVE  /\ ChainsInv' /\ (phase' # "stopped" => Follows(M, M'))
         /\ \E E : E = M' /\ Steady(E) /\ (phase = "stopped" => LiveIds(E) = {})
<1>1. PICK E : E = M'
  OBVIOUS
<1>2. QueueInv' /\ history' = history
  BY QueueStep DEF ChainsInv
<1>3. /\ Steady(E) /\ (phase' = "stopped" => E = EmptyEngine)
      /\ phase' # "stopped" => Follows(M, E)
      /\ phase = "stopped" => LiveIds(E) = {}
  BY <1>1, CorrelatorStep
<1>4. Steady(M)'
  BY <1>1, <1>2, <1>3, SteadyNext
<1>5. EmptyEngine' = EmptyEngine
  BY DEF EmptyEngine
<1>6. CorrelatorInv'
  BY <1>1, <1>3, <1>4, <1>5 DEF CorrelatorInv
<1>7. RowsInv'
  BY <1>1, <1>3, RowsStep
<1> QED
  BY <1>1, <1>2, <1>3, <1>6, <1>7 DEF ChainsInv

\* The invariant holds in every behaviour.
THEOREM ChainsAlwaysInv == Spec => []ChainsInv
<1>1. ChainsInv /\ [Next]_vars => ChainsInv'
  BY ChainsStep
<1> QED
  BY ChainsInit, <1>1, PTL DEF Spec

----------------------------------------------------------------------------
\* The theorems.

\* OneChain: every correlated alert is in one live chain, and a chain is what
\* is connected (engine.py, _assign_cluster and _rebuild_clusters).
THEOREM ChainsAreConnected == Spec => []OneChain
<1>1. ASSUME ChainsInv PROVE OneChain
  <2>1. Steady(M)
    BY <1>1 DEF ChainsInv, CorrelatorInv
  <2>2. /\ \A a \in M.placed : M.of[a] \in LiveIds(M)
        /\ \A c \in LiveIds(M) : M.chains[c].members = {a \in M.placed : M.of[a] = c}
    BY <2>1 DEF Steady, Grouped, Assigned
  <2>4. ASSUME NEW c \in LiveIds(M), NEW a \in M.chains[c].members
        PROVE  Component(M.edges, M.placed, a) = M.chains[c].members
    <3>1. a \in M.placed /\ M.of[a] = c
      BY <2>2
    <3>2. Connected(M, a) = M.chains[c].members
      BY <2>1, <3>1, ChainConnected DEF Steady
    <3> QED
      BY <3>2 DEF Connected
  <2> QED
    BY <2>2, <2>4 DEF OneChain
<1> QED
  BY <1>1, ChainsAlwaysInv, PTL

\* NeighboursTogether: neighbours on a timeline within the window are in one
\* chain (engine.py, _insert_alert and _detach).
THEOREM NeighboursShareAChain == Spec => []NeighboursTogether
<1>1. ASSUME ChainsInv PROVE NeighboursTogether
  <2>1. Steady(M)
    BY <1>1 DEF ChainsInv, CorrelatorInv
  <2>2. M.about \in [Alerts -> SUBSET Nat]
    BY <2>1 DEF Steady, Holds, Engines
  <2>3. ASSUME NEW a \in M.placed, NEW e \in UNION {M.about[b] : b \in Alerts},
               a \in Line(M, e), NEW b \in Adjacent(M, a, Line(M, e) \ {a})
        PROVE  M.of[a] = M.of[b]
    <3>1. e \in Nat
      BY <2>2, <2>3
    <3>2. b \in Connected(M, a)
      BY <2>1, <2>3, <3>1 DEF Steady, Near
    <3> QED
      BY <2>1, <3>2, ChainConnected DEF Steady
  <2> QED
    BY <2>3 DEF NeighboursTogether
<1> QED
  BY <1>1, ChainsAlwaysInv, PTL

\* NeverReissued: an investigation holds the alert its id was made for, through
\* merges and restarts (cluster_id.py and investigations.py, load_id_state).
THEOREM IdsHoldTheirAnchor == Spec => []NeverReissued
<1>1. ChainsInv => NeverReissued
  BY DEF ChainsInv, RowsInv, NeverReissued
<1> QED
  BY <1>1, ChainsAlwaysInv, PTL

\* OnlyGrow: while the program runs, the members of a chain stay together
\* (engine.py, revise and _reevaluate), or go together once they all ended
\* before the retention (prune_before).
THEOREM ChainsOnlyGrow == Spec => OnlyGrow
<1> DEFINE Grows == phase' # "stopped" => \A c \in LiveIds(M) :
                      \/ \E d \in LiveIds(M') : M.chains[c].members \subseteq M'.chains[d].members
                      \/ GoneWhole(c)
<1>1. ChainsInv /\ [Next]_vars => [Grows]_vars
  BY ChainsStep DEF Follows, Expires, GoneWhole
<1> QED
  BY <1>1, ChainsAlwaysInv, PTL DEF Spec, OnlyGrow

\* AnchorKeepsId: a chain that forms around the first alert of an investigation
\* has its id (cluster_id.py, next_id and preload).
THEOREM AnchorsKeepTheirIds == Spec => AnchorKeepsId
<1> DEFINE AsKept == \A d \in LiveIds(M') \ LiveIds(M), c \in DOMAIN rows :
                     First(M', M'.chains[d].members) = rows[c].anchor => d = c
<1>1. ASSUME ChainsInv, [Next]_vars PROVE AsKept
  <2>1. PICK E : E = M' /\ Steady(E) /\ (phase = "stopped" => LiveIds(E) = {})
    BY <1>1, ChainsStep
  <2>2. /\ phase' # "stopped" => Follows(M, E)
        /\ phase' = "stopped" => LiveIds(E) = {}
    <3>1. /\ ChainsInv' /\ (phase' # "stopped" => Follows(M, M'))
      BY <1>1, ChainsStep
    <3>2. phase' = "stopped" => E.chains = <<>>
      BY <2>1, <3>1 DEF ChainsInv, CorrelatorInv, EmptyEngine
    <3> QED
      BY <2>1, <3>1, <3>2 DEF LiveIds
  <2>3. ASSUME NEW d \in LiveIds(E) \ LiveIds(M), NEW c \in DOMAIN rows,
               First(E, E.chains[d].members) = rows[c].anchor
        PROVE  d = c
    <3> DEFINE S == E.chains[d].members
    <3>1. BearsId(E, d) /\ Follows(M, E) /\ phase # "stopped"
      BY <2>1, <2>2, <2>3 DEF Follows
    <3>2. S \in SUBSET E.placed /\ S # {}
      BY <2>1, <2>3 DEF Steady, Grouped, Assigned, IdsHeld
    <3>3. S \in SUBSET Alerts /\ Timed(E, S)
      <4>1. history \in Histories /\ Holds(E)
        BY <1>1, <2>1 DEF ChainsInv, QueueInv, Steady
      <4> QED
        BY <3>2, <4>1, TimesKnown DEF Timed, Holds, Engines
    <3> HIDE DEF S
    <3>4. Leads(E, rows[c].anchor, S)
      BY <2>3, <3>2, <3>3, FirstIs DEF S
    <3>5. /\ rows[c].anchor \in Alerts /\ M.anchor[rows[c].anchor] = c /\ c # NoId
      BY <1>1, <2>3, <3>1 DEF ChainsInv, RowsInv, IsRow
    <3>6. E.anchor[rows[c].anchor] = d
      BY <3>1, <3>4, <3>5 DEF BearsId, S
    <3>7. E.anchor[rows[c].anchor] = c
      BY <3>1, <3>5 DEF Follows
    <3> QED
      BY <3>6, <3>7
  <2> QED
    BY <2>1, <2>3
<1>2. ChainsInv /\ [Next]_vars => [AsKept]_vars
  BY <1>1
<1> QED
  BY <1>2, ChainsAlwaysInv, PTL DEF Spec, AnchorKeepsId
=============================================================================
