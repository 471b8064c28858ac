--------------------------- MODULE SettingsProofs ---------------------------
(***************************************************************************)
(* Proofs about Settings, for any models and any bounds: one engine at a   *)
(* time, no host apart from the key entered with it or a later one, and    *)
(* the engine that runs is the one that was saved.                         *)
(***************************************************************************)
EXTENDS Settings, SequenceTheorems, TLAPS

Names == Models \cup {DefaultModel}
Configs == [host : Nat, model : Names, complete : BOOLEAN]
Snapshots == [host : Nat, model : Names, key : Nat]
Calls == [at : {"waiting", "stopping", "starting"}, snapshot : Snapshots, old : Nat]

Typed ==
  /\ config \in Configs /\ secret \in Nat /\ serving \in BOOLEAN
  /\ engine \in [number : Nat, host : Nat, model : Names, key : Nat, polls : BOOLEAN]
  /\ alive \subseteq Nat
  /\ swaps \in Seq(Calls)
  /\ entered \in Nat /\ crossed \in BOOLEAN /\ failed \in BOOLEAN

\* A host and a key that may go together.
PairFits(host, key) == host <= entered /\ (host \in paired => key >= host)
Fits(s) == PairFits(s.host, s.key)

\* The key entered with a host is saved no later than it, and every caller and
\* the engine carry a host and a key that were saved together.
KeyFirst ==
  /\ secret <= entered
  /\ paired \subseteq 1 .. entered
  /\ Fits(Load(config, secret))
  /\ Fits(engine)
  /\ \A i \in DOMAIN swaps : Fits(swaps[i].snapshot)

\* Only the first caller has entered, and nobody calls a process that is down.
InTurn ==
  /\ \A i \in DOMAIN swaps : i > 1 => swaps[i].at = "waiting"
  /\ ~serving => swaps = <<>>
  /\ \A i \in DOMAIN swaps : swaps[i].at = "stopping" => swaps[i].old = engine.number
  /\ alive \subseteq {engine.number}

\* What is saved, as a snapshot and as an engine.
IsSaved(s) ==
  s.host = config.host /\ s.key = secret /\ (crossed \/ s.model = config.model)
Runs == IsSaved(engine) /\ engine.polls = (config.complete /\ config.host # 0)

\* The last caller brings what is saved, and once it has swapped it runs.
LastBrings ==
  /\ serving /\ swaps = <<>> /\ ~failed => Runs
  /\ swaps # <<>> =>
       IF swaps[Len(swaps)].at = "starting" THEN Runs /\ ~failed
       ELSE IsSaved(swaps[Len(swaps)].snapshot)

Inv == Typed /\ KeyFirst /\ InTurn /\ LastBrings

----------------------------------------------------------------------------
\* Lemmas: the queue of callers.

\* A caller joins at the end.
LEMMA Joins ==
  ASSUME NEW c \in Calls, swaps \in Seq(Calls)
  PROVE  /\ Append(swaps, c) \in Seq(Calls)
         /\ Len(Append(swaps, c)) = Len(swaps) + 1
         /\ DOMAIN Append(swaps, c) = 1 .. Len(swaps) + 1
         /\ \A i \in DOMAIN swaps : Append(swaps, c)[i] = swaps[i]
         /\ Append(swaps, c)[Len(swaps) + 1] = c
         /\ Append(swaps, c) # <<>>
  BY AppendProperties

\* The first caller leaves: the others move up.
LEMMA Leaves ==
  ASSUME swaps \in Seq(Calls), swaps # <<>>
  PROVE  /\ Without(1) \in Seq(Calls)
         /\ Len(Without(1)) = Len(swaps) - 1
         /\ DOMAIN Without(1) = 1 .. Len(swaps) - 1
         /\ \A i \in 1 .. Len(swaps) - 1 : Without(1)[i] = swaps[i + 1]
         /\ Without(1) = <<>> => Len(swaps) = 1
<1>1. Len(swaps) \in Nat \ {0} /\ DOMAIN swaps = 1 .. Len(swaps)
  BY EmptySeq, LenProperties
<1>2. SubSeq(swaps, 1, 0) = <<>>
  BY SubSeqEmpty
<1>3. \A i \in 2 .. Len(swaps) : swaps[i] \in Calls
  BY <1>1, ElementOfSeq
<1>4. /\ SubSeq(swaps, 2, Len(swaps)) \in Seq(Calls)
      /\ Len(SubSeq(swaps, 2, Len(swaps))) = Len(swaps) - 1
      /\ \A i \in 1 .. Len(swaps) - 1 : SubSeq(swaps, 2, Len(swaps))[i] = swaps[i + 1]
  BY <1>1, <1>3, SubSeqProperties
<1>5. Without(1) = SubSeq(swaps, 2, Len(swaps))
  BY <1>2, <1>4, ConcatEmptySeq DEF Without
<1>6. DOMAIN Without(1) = 1 .. Len(swaps) - 1
  BY <1>4, <1>5, LenProperties
<1>7. Len(Without(1)) = Len(swaps) - 1
  BY <1>4, <1>5
<1>8. Without(1) = <<>> => Len(swaps) = 1
  BY <1>1, <1>7, EmptySeq
<1> QED
  BY <1>4, <1>5, <1>6, <1>7, <1>8

----------------------------------------------------------------------------
\* The invariant.

LEMMA InvInit == SettingsInit => Inv
<1> SUFFICES ASSUME SettingsInit PROVE Inv
  OBVIOUS
<1>1. swaps = <<>> /\ swaps \in Seq(Calls) /\ DOMAIN swaps = {}
  BY EmptySeq DEF SettingsInit
<1>2. config \in Configs /\ config.host = 0
  BY DEF SettingsInit, Configs, Names, EmptyConfig
<1>3. engine \in [number : Nat, host : Nat, model : Names, key : Nat, polls : BOOLEAN]
  BY <1>2 DEF SettingsInit, Build, Load, Configs
<1>4. Typed
  BY <1>1, <1>2, <1>3 DEF SettingsInit, Typed
<1>5. KeyFirst
  <2>1. Fits(Load(config, secret)) /\ Fits(engine)
    BY <1>2 DEF SettingsInit, Fits, PairFits, Load, Build
  <2> QED
    BY <1>1, <2>1 DEF SettingsInit, KeyFirst
<1>6. InTurn
  BY <1>1 DEF SettingsInit, InTurn
<1>7. LastBrings
  BY <1>1 DEF SettingsInit, LastBrings
<1> QED
  BY <1>4, <1>5, <1>6, <1>7 DEF Inv

\* What a request does to hosts and keys: the pairs there were stay pairs, and
\* what is saved by it is one.
LEMMA AskedFor ==
  ASSUME Inv, NEW host, NEW key, Asked(host, key)
  PROVE  /\ entered' = entered + 1 /\ entered' \in Nat
         /\ host \in Nat /\ host <= entered' /\ key \in Nat /\ key <= entered' /\ secret <= key
         /\ paired' \subseteq 1 .. entered'
         /\ host \in paired' => key >= host
         /\ \A h, k \in Nat : PairFits(h, k) => PairFits(h, k)'
         /\ config.host \in paired' => key >= config.host
         /\ config.host <= entered'
<1>1. /\ config.host \in Nat /\ secret \in Nat /\ entered \in Nat /\ secret <= entered
      /\ paired \subseteq 1 .. entered
      /\ config.host <= entered /\ (config.host \in paired => secret >= config.host)
  BY DEF Inv, Typed, Configs, KeyFirst, Fits, PairFits, Load
<1>2. /\ entered' = entered + 1
      /\ host \in {config.host, 0, entered + 1} /\ key \in {secret, entered + 1}
      /\ paired' = IF host = entered + 1 /\ key = entered + 1 THEN paired \cup {entered + 1}
                   ELSE paired
  BY DEF Asked, HostChoices, KeyChoices
<1>3. \A k \in paired : k \in Nat /\ k >= 1 /\ k <= entered
  BY <1>1
<1>4. \A k \in Nat : k <= entered /\ k \in paired' => k \in paired
  BY <1>1, <1>2
<1>5. paired' \subseteq 1 .. entered'
  BY <1>1, <1>2, <1>3
<1>6. host \in paired' => key >= host
  <2>1. CASE key = entered + 1
    BY <1>1, <1>2, <2>1
  <2>2. CASE key # entered + 1
    BY <1>1, <1>2, <1>3, <2>2
  <2> QED
    BY <2>1, <2>2
<1>7. ASSUME NEW h \in Nat, NEW k \in Nat, PairFits(h, k)
      PROVE  PairFits(h, k)'
  BY <1>1, <1>2, <1>4, <1>7 DEF PairFits
<1>8. config.host \in paired' => key >= config.host
  BY <1>1, <1>2, <1>4
<1> QED
  BY <1>1, <1>2, <1>5, <1>6, <1>7, <1>8

\* A saved change joins the callers.
LEMMA SaveKeeps ==
  ASSUME Inv, serving, NEW c \in Configs, NEW key \in Nat, NEW host, c.host = host,
         Asked(host, key), Save(c, key), Reconfigure(c, key),
         UNCHANGED <<serving, engine, alive, crossed, failed>>
  PROVE  Inv'
<1> DEFINE new == [at |-> "waiting", snapshot |-> Load(c, key), old |-> 0]
<1>0. /\ entered' = entered + 1 /\ entered' \in Nat
      /\ host \in Nat /\ host <= entered' /\ key \in Nat /\ key <= entered' /\ secret <= key
      /\ paired' \subseteq 1 .. entered'
      /\ host \in paired' => key >= host
      /\ \A h, k \in Nat : PairFits(h, k) => PairFits(h, k)'
  BY AskedFor
<1>1. new \in Calls
  BY DEF Calls, Snapshots, Load, Configs
<1>2. swaps' = Append(swaps, new)
  BY DEF Reconfigure
<1>3. swaps \in Seq(Calls) /\ Len(swaps) \in Nat /\ DOMAIN swaps = 1 .. Len(swaps)
  BY LenProperties DEF Inv, Typed
<1>4. /\ swaps' \in Seq(Calls) /\ Len(swaps') = Len(swaps) + 1
      /\ DOMAIN swaps' = 1 .. Len(swaps) + 1
      /\ \A i \in DOMAIN swaps : swaps'[i] = swaps[i]
      /\ swaps'[Len(swaps) + 1] = new /\ swaps' # <<>>
  BY <1>1, <1>2, <1>3, Joins
<1>5. Typed'
  BY <1>0, <1>4 DEF Inv, Typed, Save
<1>9. ASSUME NEW i \in DOMAIN swaps' PROVE i \in DOMAIN swaps \/ swaps'[i] = new
  BY <1>3, <1>4
<1>6. KeyFirst'
  <2>1. Fits(new.snapshot)'
    BY <1>0 DEF Fits, PairFits, Load
  <2>2. Fits(Load(config, secret))'
    BY <1>0 DEF Fits, PairFits, Load, Save
  <2>4. Fits(engine)'
    <3>1. Fits(engine) /\ engine.host \in Nat /\ engine.key \in Nat /\ engine' = engine
      BY DEF Inv, Typed, KeyFirst
    <3> QED
      BY <1>0, <3>1 DEF Fits
  <2>5. ASSUME NEW i \in DOMAIN swaps PROVE Fits(swaps[i].snapshot)'
    <3> DEFINE s == swaps[i].snapshot
    <3>1. swaps[i] \in Calls
      BY <1>3, ElementOfSeq
    <3>2. s.host \in Nat /\ s.key \in Nat /\ Fits(s)
      BY <3>1 DEF Calls, Snapshots, Inv, KeyFirst
    <3>3. swaps'[i].snapshot = swaps[i].snapshot
      BY <1>4
    <3> QED
      BY <1>0, <3>2, <3>3 DEF Fits
  <2>6. \A i \in DOMAIN swaps' : Fits(swaps[i].snapshot)'
    BY <1>9, <2>1, <2>5 DEF Fits, PairFits
  <2> QED
    BY <1>0, <2>2, <2>4, <2>6 DEF KeyFirst, Fits, PairFits, Save
<1>7. InTurn'
  BY <1>4, <1>9 DEF Inv, InTurn
<1>8. LastBrings'
  <2>1. swaps'[Len(swaps')] = new
    BY <1>4
  <2>2. IsSaved(new.snapshot)'
    BY DEF IsSaved, Load, Save
  <2> QED
    BY <1>4, <2>1, <2>2 DEF LastBrings
<1> QED
  BY <1>5, <1>6, <1>7, <1>8 DEF Inv

LEMMA PutSiemKeeps == ASSUME Inv, NEW host, NEW key, PutSiem(host, key) PROVE Inv'
<1> DEFINE c == ApplySiem(host)
<1>1. Asked(host, key) /\ Save(c, key) /\ Reconfigure(c, key) /\ serving
  BY DEF PutSiem
<1>2. host \in Nat /\ key \in Nat
  BY <1>1, AskedFor
<1>3. c \in Configs /\ c.host = host
  BY <1>2 DEF Inv, Typed, ApplySiem, Configs
<1>4. UNCHANGED <<serving, engine, alive, crossed, failed>>
  BY DEF PutSiem
<1> HIDE DEF c
<1> QED
  BY <1>1, <1>2, <1>3, <1>4, SaveKeeps

LEMMA SetupCompleteKeeps ==
  ASSUME Inv, NEW m \in Models, NEW host, NEW key, SetupComplete(m, host, key)
  PROVE  Inv'
<1> DEFINE c == SaveSetup(m, host)
<1>1. Asked(host, key) /\ Save(c, key) /\ Reconfigure(c, key) /\ serving
  BY DEF SetupComplete
<1>2. host \in Nat /\ key \in Nat
  BY <1>1, AskedFor
<1>3. c \in Configs /\ c.host = host
  BY <1>2 DEF Inv, Typed, SaveSetup, Configs, Names
<1>4. UNCHANGED <<serving, engine, alive, crossed, failed>>
  BY DEF SetupComplete
<1> HIDE DEF c
<1> QED
  BY <1>1, <1>2, <1>3, <1>4, SaveKeeps

\* A process that dies leaves a configuration and a key that fit.
LEMMA DeathKeeps ==
  ASSUME Inv, Dead, UNCHANGED <<engine, crossed, failed>>, config' \in Configs, secret' \in Nat,
         entered' \in Nat, secret' <= entered', paired' \subseteq 1 .. entered',
         Fits(Load(config, secret))', Fits(engine)'
  PROVE  Inv'
<1>1. swaps' = <<>> /\ swaps' \in Seq(Calls) /\ DOMAIN swaps' = {}
  BY EmptySeq DEF Dead
<1>2. Typed'
  BY <1>1 DEF Inv, Typed, Dead
<1>3. KeyFirst'
  BY <1>1 DEF KeyFirst
<1>4. InTurn'
  BY <1>1 DEF InTurn, Dead
<1>5. LastBrings'
  BY <1>1 DEF LastBrings, Dead
<1> QED
  BY <1>2, <1>3, <1>4, <1>5 DEF Inv

LEMMA CrashWhileSavingKeeps ==
  ASSUME Inv, NEW host, NEW key, CrashWhileSaving(host, key) PROVE Inv'
<1>1. Asked(host, key) /\ Dead /\ UNCHANGED <<engine, crossed, failed>>
  BY DEF CrashWhileSaving
<1>2. secret' = key /\ config' \in {config, EmptyConfig}
  BY DEF CrashWhileSaving, SaveSteps
<1>3. EmptyConfig \in Configs /\ EmptyConfig.host = 0
  BY DEF EmptyConfig, Configs, Names
<1>4. /\ entered' \in Nat /\ key \in Nat /\ key <= entered'
      /\ paired' \subseteq 1 .. entered'
      /\ \A h, k \in Nat : PairFits(h, k) => PairFits(h, k)'
      /\ config.host \in paired' => key >= config.host
      /\ config.host <= entered'
  BY <1>1, AskedFor
<1>5. Fits(Load(config, secret))'
  <2>1. CASE config' = config
    BY <1>2, <1>4, <2>1 DEF Fits, PairFits, Load
  <2>2. CASE config' = EmptyConfig
    BY <1>2, <1>3, <1>4, <2>2 DEF Fits, PairFits, Load
  <2> QED
    BY <1>2, <2>1, <2>2
<1>6. Fits(engine)'
  <2>1. Fits(engine) /\ engine.host \in Nat /\ engine.key \in Nat /\ engine' = engine
    BY <1>1 DEF Inv, Typed, KeyFirst
  <2> QED
    BY <1>4, <2>1 DEF Fits, PairFits
<1>7. config' \in Configs /\ secret' \in Nat /\ secret' <= entered'
  BY <1>2, <1>3, <1>4 DEF Inv, Typed
<1> QED
  BY <1>1, <1>4, <1>5, <1>6, <1>7, DeathKeeps

LEMMA CrashKeeps == Inv /\ Crash => Inv'
<1> SUFFICES ASSUME Inv, Crash PROVE Inv'
  OBVIOUS
<1>1. UNCHANGED <<config, secret, engine, entered, paired, crossed, failed>> /\ Dead
  BY DEF Crash
<1>2. Fits(Load(config, secret))' /\ Fits(engine)'
  BY <1>1 DEF Inv, KeyFirst, Fits, PairFits, Load
<1> QED
  BY <1>1, <1>2, DeathKeeps DEF Inv, Typed, KeyFirst

LEMMA ServeKeeps == Inv /\ Serve => Inv'
<1> SUFFICES ASSUME Inv, Serve PROVE Inv'
  OBVIOUS
<1>1. swaps = <<>> /\ swaps' = swaps /\ DOMAIN swaps = {}
  BY EmptySeq DEF Inv, InTurn, Serve
<1>2. UNCHANGED <<config, secret, entered, paired>>
  BY DEF Serve
<1>3. engine' = [number |-> 1, host |-> config.host, model |-> config.model, key |-> secret,
                 polls |-> (config.complete /\ config.host # 0)]
  BY DEF Serve, Build, Load
<1>4. Typed'
  <2>1. config \in Configs /\ secret \in Nat
    BY DEF Inv, Typed
  <2>2. config.host \in Nat /\ config.model \in Names /\ config.complete \in BOOLEAN
    BY <2>1 DEF Configs
  <2>3. (config.complete /\ config.host # 0) \in BOOLEAN
    OBVIOUS
  <2>4. engine' \in [number : Nat, host : Nat, model : Names, key : Nat, polls : BOOLEAN]
    BY <1>3, <2>1, <2>2, <2>3
  <2>5. serving' \in BOOLEAN /\ alive' \subseteq Nat /\ crossed' \in BOOLEAN
      /\ failed' \in BOOLEAN
    <3>1. serving' = TRUE /\ alive' = {1} /\ crossed' = FALSE /\ failed' = FALSE
      BY DEF Serve
    <3>2. 1 \in Nat
      OBVIOUS
    <3> QED
      BY <3>1, <3>2
  <2>6. swaps' \in Seq(Calls) /\ entered' \in Nat
    BY <1>1, <1>2 DEF Inv, Typed
  <2> QED
    BY <1>2, <2>1, <2>4, <2>5, <2>6 DEF Typed
<1>5. KeyFirst'
  BY <1>1, <1>2, <1>3 DEF Inv, KeyFirst, Fits, PairFits, Load
<1>6. InTurn'
  BY <1>1, <1>3 DEF InTurn, Serve
<1>7. LastBrings'
  BY <1>1, <1>2, <1>3 DEF LastBrings, Runs, IsSaved
<1> QED
  BY <1>4, <1>5, <1>6, <1>7 DEF Inv

LEMMA PutAiKeeps == ASSUME Inv, NEW m \in Models, PutAi(m) PROVE Inv'
<1>1. config' = [config EXCEPT !.model = m] /\ engine' = [engine EXCEPT !.model = m]
  BY DEF PutAi, ApplyAi
<1>2. UNCHANGED <<secret, serving, alive, swaps, entered, paired, failed>>
  BY DEF PutAi
<1>3. /\ config'.host = config.host /\ config'.complete = config.complete /\ config'.model = m
      /\ config' \in Configs
  BY <1>1 DEF Inv, Typed, Configs, Names
<1>4. /\ engine'.number = engine.number /\ engine'.host = engine.host
      /\ engine'.key = engine.key /\ engine'.polls = engine.polls /\ engine'.model = m
      /\ engine' \in [number : Nat, host : Nat, model : Names, key : Nat, polls : BOOLEAN]
  BY <1>1 DEF Inv, Typed, Names
<1>5. crossed' = (crossed \/ swaps # <<>>) /\ crossed' \in BOOLEAN
  BY DEF Inv, Typed, PutAi, Swapping
<1>6. Typed'
  BY <1>2, <1>3, <1>4, <1>5 DEF Inv, Typed
<1>7. KeyFirst'
  BY <1>2, <1>3, <1>4 DEF Inv, KeyFirst, Fits, PairFits, Load
<1>8. InTurn'
  BY <1>2, <1>4 DEF Inv, InTurn
<1>9. LastBrings'
  BY <1>2, <1>3, <1>4, <1>5 DEF Inv, LastBrings, Runs, IsSaved
<1> QED
  BY <1>6, <1>7, <1>8, <1>9 DEF Inv

LEMMA EnterKeeps == ASSUME Inv, NEW i \in DOMAIN swaps, Enter(i) PROVE Inv'
<1> DEFINE in == [swaps[1] EXCEPT !.at = "stopping", !.old = engine.number]
<1>1. i = 1 /\ swaps[1].at = "waiting" /\ swaps \in Seq(Calls)
  BY DEF Inv, Typed, Enter, MayEnter
<1>2. Len(swaps) \in Nat /\ DOMAIN swaps = 1 .. Len(swaps)
  BY <1>1, LenProperties
<1>3. swaps[1] \in Calls
  BY <1>1, <1>2, ElementOfSeq
<1>4. in \in Calls /\ in.at = "stopping" /\ in.old = engine.number
      /\ in.snapshot = swaps[1].snapshot
  BY <1>3 DEF Inv, Typed, Calls
<1>5. swaps' = [swaps EXCEPT ![1] = in]
  BY <1>1, <1>2, <1>3 DEF Enter, Calls
<1> HIDE DEF in
<1>6. /\ swaps' \in Seq(Calls) /\ Len(swaps') = Len(swaps)
      /\ \A j \in 1 .. Len(swaps) : swaps'[j] = IF j = 1 THEN in ELSE swaps[j]
  BY <1>1, <1>2, <1>4, <1>5, ExceptSeq
<1>7. DOMAIN swaps' = 1 .. Len(swaps) /\ swaps' # <<>> /\ swaps # <<>>
  BY <1>2, <1>6, LenProperties, EmptySeq
<1>8. UNCHANGED <<config, secret, serving, engine, alive, entered, paired, crossed, failed>>
  BY DEF Enter
<1>9. Typed'
  BY <1>6, <1>8 DEF Inv, Typed
<1>10. KeyFirst'
  BY <1>2, <1>4, <1>6, <1>7, <1>8 DEF Inv, KeyFirst, Fits, PairFits, Load
<1>11. InTurn'
  BY <1>2, <1>4, <1>6, <1>7, <1>8 DEF Inv, InTurn
<1>12. LastBrings'
  BY <1>1, <1>2, <1>4, <1>6, <1>7, <1>8 DEF Inv, LastBrings, Runs, IsSaved, InTurn
<1> QED
  BY <1>9, <1>10, <1>11, <1>12 DEF Inv

LEMMA SwapKeeps == ASSUME Inv, NEW i \in DOMAIN swaps, Swap(i) PROVE Inv'
<1> DEFINE in == [swaps[1] EXCEPT !.at = "starting"]
           s  == swaps[1].snapshot
<1>1. /\ i = 1 /\ swaps[1].at = "stopping" /\ swaps \in Seq(Calls)
      /\ swaps[1].old = engine.number
  BY DEF Inv, Typed, InTurn, Swap
<1>2. Len(swaps) \in Nat /\ DOMAIN swaps = 1 .. Len(swaps)
  BY <1>1, LenProperties
<1>3. swaps[1] \in Calls /\ s \in Snapshots
  <2>1. swaps[1] \in Calls
    BY <1>1, <1>2, ElementOfSeq
  <2> QED
    BY <2>1 DEF Calls
<1>4. in \in Calls /\ in.at = "starting" /\ in.snapshot = s
  BY <1>3 DEF Calls
<1>5. swaps' = [swaps EXCEPT ![1] = in]
  BY <1>1, <1>2, <1>3 DEF Swap, Calls
<1>6. /\ swaps' \in Seq(Calls) /\ Len(swaps') = Len(swaps)
      /\ \A j \in 1 .. Len(swaps) : swaps'[j] = IF j = 1 THEN in ELSE swaps[j]
  <2> HIDE DEF in
  <2> QED
    BY <1>1, <1>2, <1>4, <1>5, ExceptSeq
<1>7. DOMAIN swaps' = 1 .. Len(swaps) /\ swaps' # <<>> /\ swaps # <<>>
  BY <1>2, <1>6, LenProperties, EmptySeq
<1>8. UNCHANGED <<config, secret, serving, entered, paired, crossed>> /\ failed' = FALSE
  BY DEF Swap
<1>9. engine' = [number |-> engine.number + 1, host |-> s.host, model |-> s.model,
                 key |-> s.key, polls |-> (config.complete /\ s.host # 0)]
  BY <1>1 DEF Swap, Build
<1>10. alive' = (alive \ {engine.number}) \cup {engine.number + 1}
  BY <1>1 DEF Swap
<1> HIDE DEF in, s
<1>11. Typed'
  <2>1. s.host \in Nat /\ s.model \in Names /\ s.key \in Nat /\ engine.number \in Nat
    BY <1>3 DEF Snapshots, Inv, Typed
  <2>2. (config.complete /\ s.host # 0) \in BOOLEAN
    OBVIOUS
  <2>3. engine' \in [number : Nat, host : Nat, model : Names, key : Nat, polls : BOOLEAN]
    BY <1>9, <2>1, <2>2
  <2>4. alive' \subseteq Nat
    <3>1. engine.number + 1 \in Nat /\ alive \subseteq Nat
      BY <2>1 DEF Inv, Typed
    <3> QED
      BY <1>10, <3>1
  <2> QED
    BY <1>6, <1>8, <2>3, <2>4 DEF Inv, Typed
<1>12. KeyFirst'
  <2>1. Fits(s)
    BY <1>2, <1>7 DEF Inv, KeyFirst, s
  <2>2. Fits(engine)'
    BY <1>8, <1>9, <2>1 DEF Fits, PairFits
  <2>3. \A j \in DOMAIN swaps' : Fits(swaps[j].snapshot)'
    <3> SUFFICES ASSUME NEW j \in DOMAIN swaps'
                 PROVE  Fits(swaps[j].snapshot)'
      OBVIOUS
    <3>1. Fits(swaps'[j].snapshot)
      BY <1>2, <1>4, <1>6, <1>7, <2>1 DEF Inv, KeyFirst
    <3> QED
      BY <1>8, <3>1 DEF Fits, PairFits
  <2>4. Fits(Load(config, secret))'
    BY <1>8 DEF Inv, KeyFirst, Fits, PairFits, Load
  <2>5. secret' <= entered' /\ paired' \subseteq 1 .. entered'
    BY <1>8 DEF Inv, KeyFirst
  <2> QED
    BY <2>2, <2>3, <2>4, <2>5 DEF KeyFirst, Fits, PairFits
<1>13. InTurn'
  <2>1. \A j \in DOMAIN swaps' : j > 1 => swaps'[j].at = "waiting"
    BY <1>2, <1>6, <1>7 DEF Inv, InTurn
  <2>2. ~serving' => swaps' = <<>>
    BY <1>7, <1>8 DEF Inv, InTurn
  <2>3. \A j \in DOMAIN swaps' : swaps'[j].at # "stopping"
    BY <1>2, <1>4, <1>6, <1>7, <2>1
  <2>4. alive' \subseteq {engine'.number}
    BY <1>9, <1>10 DEF Inv, InTurn
  <2> QED
    BY <2>1, <2>2, <2>3, <2>4 DEF InTurn
<1>14. LastBrings'
  <2>1. CASE Len(swaps) = 1
    <3>1. IsSaved(s)
      BY <1>1, <1>7, <2>1 DEF Inv, LastBrings, s
    <3>2. Runs'
      BY <1>8, <1>9, <3>1 DEF Runs, IsSaved
    <3>3. swaps'[Len(swaps')].at = "starting"
      BY <1>4, <1>6, <2>1
    <3>4. ~failed'
      BY <1>8
    <3> QED
      BY <1>7, <3>2, <3>3, <3>4 DEF LastBrings
  <2>2. CASE Len(swaps) # 1
    <3>1. Len(swaps) > 1
      BY <1>2, <1>7, <2>2, <1>1, EmptySeq
    <3>2. swaps'[Len(swaps')] = swaps[Len(swaps)] /\ swaps[Len(swaps)].at = "waiting"
      BY <1>2, <1>6, <3>1 DEF Inv, InTurn
    <3>3. IsSaved(swaps[Len(swaps)].snapshot)
      BY <1>7, <3>2 DEF Inv, LastBrings
    <3> QED
      BY <1>7, <1>8, <3>2, <3>3 DEF LastBrings, IsSaved
  <2> QED
    BY <2>1, <2>2
<1> QED
  BY <1>11, <1>12, <1>13, <1>14 DEF Inv

\* The first caller is gone: it has swapped, or it raised and left the runner.
LEMMA LeavingKeeps ==
  ASSUME Inv, swaps # <<>>, swaps[1].at # "waiting", swaps' = Without(1),
         UNCHANGED <<config, secret, serving, engine, entered, paired, crossed>>,
         alive' \subseteq alive, failed' \in BOOLEAN,
         failed' \/ (swaps[1].at = "starting" /\ UNCHANGED failed)
  PROVE  Inv'
<1>1. swaps \in Seq(Calls) /\ Len(swaps) \in Nat /\ DOMAIN swaps = 1 .. Len(swaps)
  BY LenProperties DEF Inv, Typed
<1>2. /\ swaps' \in Seq(Calls) /\ Len(swaps') = Len(swaps) - 1
      /\ DOMAIN swaps' = 1 .. Len(swaps) - 1
      /\ \A j \in 1 .. Len(swaps) - 1 : swaps'[j] = swaps[j + 1]
      /\ swaps' = <<>> => Len(swaps) = 1
  BY <1>1, Leaves
<1>3. Typed'
  BY <1>2 DEF Inv, Typed
<1>4. ASSUME NEW j \in DOMAIN swaps'
      PROVE  swaps'[j].at = "waiting" /\ Fits(swaps'[j].snapshot)
  <2>1. j + 1 \in DOMAIN swaps /\ j + 1 > 1 /\ swaps'[j] = swaps[j + 1]
    BY <1>1, <1>2
  <2> QED
    BY <2>1 DEF Inv, InTurn, KeyFirst
<1>5. KeyFirst'
  BY <1>4 DEF Inv, KeyFirst, Fits, PairFits, Load
<1>6. InTurn'
  BY <1>1, <1>4 DEF Inv, InTurn
<1>7. LastBrings'
  <2>1. CASE swaps' = <<>>
    <3>1. Len(swaps) = 1
      BY <1>2, <2>1
    <3>2. failed' \/ (Runs /\ ~failed')
      BY <1>2, <2>1 DEF Inv, LastBrings
    <3> QED
      BY <2>1, <3>2 DEF LastBrings, Runs, IsSaved
  <2>2. CASE swaps' # <<>>
    <3>1. Len(swaps') # 0
      BY <1>2, <2>2, EmptySeq
    <3>2. swaps'[Len(swaps')] = swaps[Len(swaps)] /\ swaps[Len(swaps)].at = "waiting"
      BY <1>1, <1>2, <1>4, <3>1
    <3>3. IsSaved(swaps[Len(swaps)].snapshot)
      BY <3>2 DEF Inv, LastBrings
    <3> QED
      BY <2>2, <3>2, <3>3 DEF LastBrings, IsSaved
  <2> QED
    BY <2>1, <2>2
<1> QED
  BY <1>3, <1>5, <1>6, <1>7 DEF Inv

LEMMA StartedKeeps == ASSUME Inv, NEW i \in DOMAIN swaps, Started(i) PROVE Inv'
<1>1. i = 1 /\ swaps[1].at = "starting" /\ swaps # <<>>
  BY EmptySeq DEF Inv, Typed, InTurn, Started
<1> QED
  BY <1>1, LeavingKeeps DEF Started, Inv, Typed

LEMMA SwapFailsKeeps == ASSUME Inv, NEW i \in DOMAIN swaps, SwapFails(i) PROVE Inv'
<1>1. i = 1 /\ swaps[1].at # "waiting" /\ swaps # <<>>
  BY EmptySeq DEF Inv, Typed, InTurn, SwapFails
<1> QED
  BY <1>1, LeavingKeeps DEF SwapFails

LEMMA StepKeeps == Inv /\ [SettingsNext]_settingsVars => Inv'
<1> SUFFICES ASSUME Inv, [SettingsNext]_settingsVars PROVE Inv'
  OBVIOUS
<1>1. ASSUME NEW host, NEW key, PutSiem(host, key) PROVE Inv'
  BY <1>1, PutSiemKeeps
<1>2. ASSUME NEW host, NEW key, CrashWhileSaving(host, key) PROVE Inv'
  BY <1>2, CrashWhileSavingKeeps
<1>3. CASE Crash
  BY <1>3, CrashKeeps
<1>4. CASE Serve
  BY <1>4, ServeKeeps
<1>5. ASSUME NEW m \in Models, NEW host, NEW key, SetupComplete(m, host, key) PROVE Inv'
  BY <1>5, SetupCompleteKeeps
<1>6. ASSUME NEW m \in Models, PutAi(m) PROVE Inv'
  BY <1>6, PutAiKeeps
<1>7. ASSUME NEW i \in DOMAIN swaps, Enter(i) \/ Swap(i) \/ Started(i) \/ SwapFails(i)
      PROVE  Inv'
  BY <1>7, EnterKeeps, SwapKeeps, StartedKeeps, SwapFailsKeeps
<1>8. CASE UNCHANGED settingsVars
  <2>1. /\ config' = config /\ secret' = secret /\ serving' = serving /\ engine' = engine
        /\ alive' = alive /\ swaps' = swaps /\ entered' = entered /\ paired' = paired
        /\ crossed' = crossed /\ failed' = failed
    BY <1>8 DEF settingsVars
  <2> QED
    BY <2>1 DEF Inv, Typed, KeyFirst, Fits, PairFits, Load, InTurn, LastBrings, Runs, IsSaved
<1> QED
  BY <1>1, <1>2, <1>3, <1>4, <1>5, <1>6, <1>7, <1>8 DEF SettingsNext

LEMMA Inductive == SettingsSpec => []Inv
  BY InvInit, StepKeeps, PTL DEF SettingsSpec

----------------------------------------------------------------------------
\* Theorems.

\* At rest the engine that runs is built from what config.yaml and secrets.enc
\* hold, however many saves waited for each other in reconfigure and whichever
\* of them failed before the last.
THEOREM EngineRunsAsSaved == SettingsSpec => []RunsAsSaved
<1>1. Inv => RunsAsSaved
  BY DEF Inv, Typed, LastBrings, Runs, IsSaved, RunsAsSaved, Swapping
<1> QED
  BY <1>1, Inductive, PTL

\* reconfigure never lets two engines run: the caller whose turn it is stops
\* the one that runs.
THEOREM OnlyOneEngine == SettingsSpec => []OneEngine
<1>1. Inv => OneEngine
  BY DEF Inv, InTurn, OneEngine
<1> QED
  BY <1>1, Inductive, PTL

\* A host that was entered with its key meets that key or a later one, in
\* config.yaml as in the engine, wherever a crash cut the two writes of a save,
\* however many requests kept one of the two and in whatever order their swaps
\* failed.  A request that gives a host alone pairs it with the key there is.
THEOREM HostNeverAheadOfKey == SettingsSpec => []HostHasItsKey
<1>1. Inv => HostHasItsKey
  BY DEF Inv, KeyFirst, Fits, PairFits, Load, HostHasItsKey
<1> QED
  BY <1>1, Inductive, PTL
=============================================================================
