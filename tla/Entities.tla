------------------------------ MODULE Entities ------------------------------
(***************************************************************************)
(* Entity resolution (src/engine/correlate/entities.py): which hosts,      *)
(* users and addresses an alert is about.  Identifiers that occur together *)
(* are one entity; an address belongs to whoever held it at the time of    *)
(* the alert.  Pure operators on the resolver's state, a record: next (the *)
(* next number), entity (number |-> first seen and identifiers), alive     *)
(* (the numbers not absorbed), index (identifier |-> number, 0 for none)   *)
(* and leases (address |-> pairs of a start and a number).                 *)
(***************************************************************************)
EXTENDS Naturals, FiniteSets

CONSTANTS
  HostIds,      \* agent uids, host names, MACs and process GUIDs
  UserIds,
  Ips,
  Precedence,   \* rank of every identifier: the kind that anchors first is 1
  Display       \* rank of every identifier as the name of its entity

Ids == HostIds \cup UserIds \cup Ips
NoIp == "none"

ASSUME EntitiesAssumption ==
  /\ HostIds \cap UserIds = {} /\ (HostIds \cup UserIds) \cap Ips = {} /\ NoIp \notin Ips
  /\ Precedence \in [Ids -> Nat] /\ Display \in [Ids -> Nat]

\* f, and v at k.
With(f, k, v) == [x \in DOMAIN f \cup {k} |-> IF x = k THEN v ELSE f[x]]

NewResolver ==
  [next |-> 1, entity |-> <<>>, alive |-> {}, index |-> [i \in Ids |-> 0],
   leases |-> [i \in Ips |-> {}]]

Least(S) == CHOOSE n \in S : \A m \in S : n <= m

\* display_name, as a rank; 0 is an entity without identifiers.
Name(R, e) == IF R.entity[e].ids = {} THEN 0 ELSE Least({Display[i] : i \in R.entity[e].ids})

\* A result is a resolver and the entity found or made (0: none).
NewEntity(R, t, ids) ==
  [uid |-> R.next,
   res |-> [R EXCEPT !.next = @ + 1, !.alive = @ \cup {R.next},
                     !.entity = With(@, R.next, [first |-> t, ids |-> ids])]]

Older(R, d, e) ==
  \/ R.entity[d].first < R.entity[e].first
  \/ R.entity[d].first = R.entity[e].first /\ d <= e

\* _merge, of all of es: the oldest absorbs the others.
Oldest(R, es) == CHOOSE e \in es : \A d \in es : Older(R, e, d)
Absorb(R, keep, gone, ids) ==
  LET Now(e) == IF e \in gone THEN keep ELSE e
  IN [R EXCEPT
    !.alive  = @ \ gone,
    !.entity[keep].ids = @ \cup ids,
    !.index  = [i \in Ids |-> IF i \in ids \ Ips THEN keep ELSE @[i]],
    !.leases = [i \in Ips |-> {<<l[1], Now(l[2])>> : l \in @[i]}]]
Into(R, keep, gone) ==
  [uid |-> keep, res |-> Absorb(R, keep, gone, UNION {R.entity[e].ids : e \in gone})]
Merge(R, es) == Into(R, Oldest(R, es), es \ {Oldest(R, es)})

\* _resolve_durable: the entity of identifiers that occur together.
Claim(f, ids, t) ==
  [f EXCEPT !.res.entity[f.uid] = [first |-> IF t < @.first THEN t ELSE @.first,
                                   ids |-> @.ids \cup ids],
            !.res.index = [i \in Ids |-> IF i \in ids THEN f.uid ELSE @[i]]]
Durable(R, ids, t) ==
  LET found == {R.index[i] : i \in ids} \cap R.alive
  IN IF ids = {} THEN [uid |-> 0, res |-> R]
     ELSE Claim(IF found = {} THEN NewEntity(R, t, {}) ELSE Merge(R, found), ids, t)

\* _assignment_at: who held the address at t, by the latest lease before it.
Holder(R, ip, t) ==
  LET past == {l \in R.leases[ip] : l[1] <= t}
  IN IF past = {} THEN 0
     ELSE (CHOOSE l \in past : \A k \in past : k[1] < l[1] \/ (k[1] = l[1] /\ k[2] <= l[2]))[2]

\* _observe_ip
Lease(R, ip, e, t) ==
  IF Holder(R, ip, t) = e THEN R
  ELSE [R EXCEPT !.leases[ip] = @ \cup {<<t, e>>}, !.entity[e].ids = @ \cup {ip}]

\* The address of a device without a name, and a source address.
DeviceIp(R, ip, t) ==
  IF Holder(R, ip, t) # 0 THEN [uid |-> Holder(R, ip, t), res |-> R]
  ELSE [NewEntity(R, t, {ip}) EXCEPT !.res = Lease(@, ip, R.next, t)]
SourceIp(R, ip, t) ==
  IF Holder(R, ip, t) # 0 THEN [uid |-> Holder(R, ip, t), res |-> R]
  ELSE IF R.index[ip] \in R.alive THEN [uid |-> R.index[ip], res |-> R]
  ELSE [NewEntity(R, t, {ip}) EXCEPT !.res.index[ip] = R.next]

\* What resolve has touched, in the order it goes: host, address of the device,
\* user, source address.  W has the resolver and touches, <<turn, entity, ids>>.
Touch(W, found, ids) ==
  [res |-> found.res,
   touches |-> W.touches \cup
     (IF found.uid = 0 THEN {} ELSE {<<Cardinality(W.touches) + 1, found.uid, ids>>})]
ByHost(W, ids, v) == Touch(W, Durable(W.res, ids, v.time), ids)
ByDevice(W, v) ==
  IF v.device = NoIp THEN W
  ELSE IF W.touches = {} THEN Touch(W, DeviceIp(W.res, v.device, v.time), {v.device})
  ELSE LET host == (CHOOSE c \in W.touches : TRUE)[2]
       IN Touch(W, [uid |-> host, res |-> Lease(W.res, v.device, host, v.time)], {v.device})
ByUser(W, v) == Touch(W, Durable(W.res, v.user, v.time), v.user)
BySource(W, v) ==
  IF v.src = NoIp THEN W ELSE Touch(W, SourceIp(W.res, v.src, v.time), {v.src})

\* _pick_primary: the entity touched by the identifier of the first kind, and
\* of these the one touched first.
Rank(ids) == Least({Precedence[i] : i \in ids})
Primary(touches) ==
  LET Before(c, d) == Rank(c[3]) < Rank(d[3]) \/ (Rank(c[3]) = Rank(d[3]) /\ c[1] <= d[1])
  IN (CHOOSE c \in touches : \A d \in touches : Before(c, d))[2]

\* resolve
Resolution(W, v) ==
  IF W.touches = {}
    THEN [res |-> NewEntity(W.res, v.time, {}).res, entities |-> {W.res.next},
          primary |-> W.res.next]
  ELSE [res |-> W.res, entities |-> {c[2] : c \in W.touches}, primary |-> Primary(W.touches)]
Resolve(R, v) ==
  Resolution(BySource(ByUser(ByDevice(ByHost(
    [res |-> R, touches |-> {}], v.host \cup v.process, v), v), v), v), v)

\* flush_stale: entities that are idle are found no more.  What was resolved to
\* them still names them.
Flushed(R, idle) ==
  [R EXCEPT !.alive = @ \ idle,
            !.index = [i \in Ids |-> IF @[i] \in idle THEN 0 ELSE @[i]],
            !.leases = [i \in Ips |-> {l \in @[i] : l[2] \in R.alive \ idle}]]
=============================================================================
