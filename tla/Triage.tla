-------------------------------- MODULE Triage --------------------------------
(***************************************************************************)
(* AI triage of the chains, and the document of each chain in the mirror   *)
(* of the process and in the results index: src/engine/ai/service.py, the  *)
(* reasoner and provider it calls, src/engine/connectors/writeback.py.     *)
(*                                                                         *)
(* The evidence of a chain is a number that grows whenever an alert joins  *)
(* it or is revised in a way _stamp sees; 0 is a chain not yet formed.     *)
(* The cycles triage every chain in turn; an analyst may ask for one of    *)
(* them at any time.  Each await lets the others go on.                    *)
(***************************************************************************)
EXTENDS Naturals, SequencesExt

CONSTANTS
  Cycles,       \* evaluation cycles: of the v2 runtime, of the v1 poller
  Request,      \* the analyst who forces a triage
  Investigated, \* chains
  Room,         \* MAX_LOCAL_RESULTS
  Setups,       \* choices of ai.triage_scope and of writing back
  MaxEvidence,  \* bound: the evidence of each chain
  MaxTurns      \* bound: changes of the provider, outages, restarts, requests
                \* and failed writes, together

ASSUME TriageAssumption ==
  /\ Request \notin Cycles /\ Room \in Nat /\ MaxTurns \in Nat
  /\ Setups \subseteq {"all", "surfaced"} \X BOOLEAN
  /\ MaxEvidence \in [Investigated -> Nat]

VARIABLES
  scope,      \* ai.triage_scope
  writing,    \* write-back is on
  evidence,   \* the evidence of each chain in the correlator
  surfaced,   \* chains that are surfaced
  model,      \* the current provider: "local" or "cloud"
  reachable,  \* the local model answers
  mirror,     \* _results, the oldest document first
  prints,     \* _fingerprints
  index,      \* the results index
  call,       \* what each caller of process_cluster is doing
  missed,     \* chains whose last write failed or was overtaken (a ghost)
  turns       \* what MaxTurns counts

triageVars == <<scope, writing, evidence, surfaced, model, reachable, mirror, prints, index,
                call, missed, turns>>
world   == <<scope, writing, evidence, surfaced, model, reachable>>
results == <<mirror, prints, index, missed>>
Callers == Cycles \cup {Request}

Happens == turns < MaxTurns /\ turns' = turns + 1

----------------------------------------------------------------------------
\* Documents.

\* facts: the evidence the chain part shows; analysed: the evidence the model
\* was given, 0 without an analysis; claimed: evidence_stamp.
NoDoc == [chain |-> 0, facts |-> 0, analysed |-> 0, claimed |-> 0, status |-> "none",
          stale |-> FALSE]
Mirrored(c) == {mirror[i] : i \in {i \in DOMAIN mirror : mirror[i].chain = c}}

\* _fingerprint
FingerprintCoarse(c) == <<c \in surfaced, model, 0>>
FingerprintOf(c) == <<c \in surfaced, model, evidence[c]>>
InScope(c) == scope = "all" \/ c \in surfaced

\* _store_result: the document becomes the newest, the oldest gives way.
Popped(c) ==
  IF \E i \in DOMAIN mirror : mirror[i].chain = c
    THEN RemoveAt(mirror, CHOOSE i \in DOMAIN mirror : mirror[i].chain = c)
    ELSE mirror
Bounded(docs) == IF Len(docs) > Room THEN SubSeq(docs, Len(docs) - Room + 1, Len(docs)) ELSE docs
StoreResult(doc, print) ==
  /\ mirror' = Bounded(Append(Popped(doc.chain), doc))
  /\ prints' = [c \in Investigated |->
                  IF c = doc.chain THEN print
                  ELSE IF \E i \in DOMAIN mirror' : mirror'[i].chain = c THEN prints[c]
                  ELSE <<>>]

----------------------------------------------------------------------------
\* process_cluster.

Idle == [at |-> "idle", chain |-> 0, left |-> {}, stamp |-> 0, print |-> <<>>, doc |-> NoDoc]
Goes(w, k) == call' = [call EXCEPT ![w] = k]

\* A cycle goes on to its next chain.
Over(k) == [Idle EXCEPT !.left = k.left]
Next1(w, k) == Goes(w, Over(k))

\* Store, then write back.
Stored(w, k, doc, print) ==
  /\ StoreResult(doc, print)
  /\ Goes(w, IF writing THEN [k EXCEPT !.at = "write", !.doc = doc] ELSE Over(k))
  /\ UNCHANGED <<index, missed>>

\* An analysis of other evidence is kept and marked, never redone by a cycle.
Outdated(w, d, stamp) == w # Request /\ d.analysed # 0 /\ d.claimed # stamp

MarkStale(w, k, d) ==
  Stored(w, k, [d EXCEPT !.facts = evidence[k.chain], !.stale = TRUE], k.print)

Decide(w, k) ==
  \/ \E d \in Mirrored(k.chain) : Outdated(w, d, k.stamp) /\ MarkStale(w, k, d)
  \/ /\ \A d \in Mirrored(k.chain) : ~Outdated(w, d, k.stamp)
     /\ Goes(w, [k EXCEPT !.at = "context",
                          !.doc = [NoDoc EXCEPT !.chain = k.chain, !.facts = evidence[k.chain],
                                                !.claimed = k.stamp]])
     /\ UNCHANGED results

\* The stamp and the fingerprint are taken first; an unchanged chain is left
\* alone unless its triage failed and the provider may be back.
Settled(w, c) ==
  w # Request /\ \E d \in Mirrored(c) : prints[c] = FingerprintOf(c)
Failed(c) == \E d \in Mirrored(c) : d.status = "ai_unavailable"

Begin(w, c) ==
  LET k == [Idle EXCEPT !.chain = c, !.left = call[w].left \ {c}, !.stamp = evidence[c],
                        !.print = FingerprintOf(c)]
  IN /\ call[w].at = "idle" /\ c \in call[w].left
     /\ \/ ~Settled(w, c) /\ Decide(w, k)
        \/ Settled(w, c) /\ Failed(c) /\ Goes(w, [k EXCEPT !.at = "health"]) /\ UNCHANGED results
        \/ Settled(w, c) /\ ~Failed(c) /\ Next1(w, k) /\ UNCHANGED results
     /\ UNCHANGED <<world, turns>>

\* AIProvider.health: a cloud provider is never probed.
Health(w) ==
  /\ call[w].at = "health"
  /\ IF call[w].print[2] = "local" /\ ~reachable
       THEN Next1(w, call[w]) /\ UNCHANGED results
       ELSE Decide(w, call[w])
  /\ UNCHANGED <<world, turns>>

\* The context is there: the payload is built from the chain as it now is, for
\* the provider as it now is; a chain out of scope is not analysed.
EvidenceNow(k) == evidence[k.chain]
Context(w) ==
  LET k == call[w]
  IN /\ k.at = "context"
     /\ IF w = Request \/ InScope(k.chain)
          THEN /\ Goes(w, [k EXCEPT !.at = "model", !.doc.analysed = EvidenceNow(k)])
               /\ UNCHANGED results
          ELSE Stored(w, k, [k.doc EXCEPT !.status = "pending"], k.print)
     /\ UNCHANGED <<world, turns>>

\* The model answers, or there is no verdict and the document says so.
Answers(k) == {[k.doc EXCEPT !.status = "triaged"],
               [k.doc EXCEPT !.status = "ai_unavailable", !.analysed = 0]}
PrintNow(k) == FingerprintOf(k.chain)
PrintOf(k) == k.print
Model(w) ==
  LET k == call[w]
  IN /\ k.at = "model"
     /\ \E doc \in Answers(k) : Stored(w, k, doc, PrintOf(k))
     /\ UNCHANGED <<world, turns>>

\* ResultWriter.write: a failure is logged and the cycle goes on.
WriteFirst(w, k) ==
  [index EXCEPT ![k.chain] = IF index[k.chain].facts = 0 THEN k.doc ELSE index[k.chain]]
Write(w, k) == [index EXCEPT ![k.chain] = k.doc]
Overtaken(w, k) == \E v \in Callers \ {w} : call[v].at = "write" /\ call[v].chain = k.chain

WriteBack(w) ==
  LET k == call[w]
  IN /\ k.at = "write"
     /\ \/ /\ index' = Write(w, k) /\ UNCHANGED turns
           /\ missed' = IF Overtaken(w, k) THEN missed \cup {k.chain}
                        ELSE IF \A d \in Mirrored(k.chain) : d = k.doc
                          THEN missed \ {k.chain} ELSE missed
        \/ /\ Happens /\ missed' = missed \cup {k.chain} /\ UNCHANGED index
     /\ Next1(w, k)
     /\ UNCHANGED <<world, mirror, prints>>

\* process_all, from evaluate_now and from the consumer of the poller.
StartCycle(w) ==
  /\ w \in Cycles /\ call[w] = Idle
  /\ \E c \in Investigated : evidence[c] > 0
  /\ Goes(w, [Idle EXCEPT !.left = {c \in Investigated : evidence[c] > 0}])
  /\ UNCHANGED <<world, results, turns>>

\* POST .../triage
Retriage(c) ==
  /\ call[Request] = Idle /\ evidence[c] > 0 /\ Happens
  /\ Goes(Request, [Idle EXCEPT !.left = {c}])
  /\ UNCHANGED <<world, results>>

----------------------------------------------------------------------------
\* The correlator, the provider and the process.

Evolve(c) ==
  /\ evidence[c] < MaxEvidence[c]
  /\ evidence' = [evidence EXCEPT ![c] = @ + 1]
  /\ \/ UNCHANGED surfaced
     \/ c \notin surfaced /\ surfaced' = surfaced \cup {c}
  /\ UNCHANGED <<scope, writing, model, reachable, results, call, turns>>

\* ProviderManager.switch
Switch ==
  /\ Happens /\ model' = IF model = "local" THEN "cloud" ELSE "local"
  /\ UNCHANGED <<scope, writing, evidence, surfaced, reachable, results, call>>

Outage ==
  /\ Happens /\ reachable' = ~reachable
  /\ UNCHANGED <<scope, writing, evidence, surfaced, model, results, call>>

Restart ==
  /\ Happens
  /\ mirror' = <<>> /\ prints' = [c \in Investigated |-> <<>>]
  /\ call' = [w \in Callers |-> Idle]
  /\ UNCHANGED <<world, index, missed>>

TriageInit ==
  /\ \E s \in Setups : scope = s[1] /\ writing = s[2]
  /\ evidence = [c \in Investigated |-> 0] /\ surfaced = {}
  /\ model = "local" /\ reachable = TRUE
  /\ mirror = <<>> /\ prints = [c \in Investigated |-> <<>>]
  /\ index = [c \in Investigated |-> NoDoc]
  /\ call = [w \in Callers |-> Idle] /\ missed = {} /\ turns = 0

Step(w) ==
  \/ StartCycle(w)
  \/ \E c \in Investigated : Begin(w, c)
  \/ Health(w) \/ Context(w) \/ Model(w) \/ WriteBack(w)

TriageNext ==
  \/ \E w \in Callers : Step(w)
  \/ \E c \in Investigated : Retriage(c) \/ Evolve(c)
  \/ Switch \/ Outage \/ Restart

TriageSpec == TriageInit /\ [][TriageNext]_triageVars

----------------------------------------------------------------------------
\* Properties.

\* No cycle settles for an analysis of other evidence: it is marked stale, or
\* the chain does not look settled and the next cycle marks it, whatever
\* changed while the context and the model were awaited.
StaleIsMarked ==
  \A c \in Investigated : \A d \in Mirrored(c) :
    prints[c] = FingerprintOf(c) =>
      d.facts = evidence[c] /\ (d.analysed \in {0, evidence[c]} \/ d.stale)

\* The index shows the chain as the mirror does, but for a write that failed or
\* crossed another; nothing repairs these before the chain changes.
IndexMirrors ==
  writing => \A c \in Investigated \ missed : \A d \in Mirrored(c) :
    (\A w \in Callers : call[w].at = "write" => call[w].chain # c) => index[c] = d

\* Every chain gets its document, of the evidence as it is, again and again,
\* however few the mirror has room for and whether or not the model answers.
Current(c) == evidence[c] = 0 \/ \E d \in Mirrored(c) : d.facts = evidence[c]
DocumentsCatchUp == \A c \in Investigated : []<>Current(c)
=============================================================================
