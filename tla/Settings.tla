------------------------------- MODULE Settings -------------------------------
(***************************************************************************)
(* The managed application: settings saved from the dashboard, secrets     *)
(* kept apart from them, and the engine that is swapped when they change:  *)
(* src/engine/settings.py, src/engine/secure/store.py, src/engine/app.py,  *)
(* the settings routes of src/engine/api/.                                 *)
(*                                                                         *)
(* Saving is synchronous: another request cannot see it half done, a crash *)
(* can leave it half done.  Swapping engines awaits; requests come between.*)
(* A SIEM host, or key, is the number of the request that entered it; 0 is *)
(* none.  A request may enter both, or one and keep the other.             *)
(***************************************************************************)
EXTENDS Naturals, Sequences

CONSTANTS
  Models,      \* ai models to choose from, one of them DefaultModel
  DefaultModel,
  MaxSaves,    \* bound: saves of the SIEM settings and of the wizard
  MaxSwitches, \* bound: choices of a model
  MaxCrashes   \* bound: crashes

VARIABLES
  config,     \* config.yaml: the SIEM host, the model, app.setup_complete
  secret,     \* secrets.enc: the SIEM key
  serving,    \* the process runs
  engine,     \* AppRunner.runner: the settings it was built from
  alive,      \* engines that have been started and not stopped
  swaps,      \* calls of reconfigure, in the order they came
  entered,    \* what MaxSaves counts
  switches,   \* what MaxSwitches counts
  paired,     \* the saves that entered a host with its key (a ghost)
  crossed,    \* the model was chosen while engines were swapped (a ghost)
  failed,     \* the last swap of engines raised (a ghost)
  crashes     \* what MaxCrashes counts

settingsVars == <<config, secret, serving, engine, alive, swaps, entered, switches, paired,
                  crossed, failed, crashes>>

EmptyConfig == [host |-> 0, model |-> DefaultModel, complete |-> FALSE]

\* load: the configuration with its secret.
Load(c, key) == [host |-> c.host, model |-> c.model, key |-> key]

\* AppRunner._build: the poller runs once setup is complete and there is a host.
Build(snapshot, n) ==
  [number |-> n, host |-> snapshot.host, model |-> snapshot.model, key |-> snapshot.key,
   polls |-> config.complete /\ snapshot.host # 0]

----------------------------------------------------------------------------
\* PUT /api/settings/siem and POST /api/setup/complete.

ApplySiem(host) == [config EXCEPT !.host = host]
SaveSetup(m, host) == [config EXCEPT !.host = host, !.model = m, !.complete = TRUE]
ApplyAi(m) == [config EXCEPT !.model = m]

\* The secret first, then the file; then the engine is to be swapped.
Save(c, key) == config' = c /\ secret' = key
Reconfigure(c, key) ==
  swaps' = Append(swaps, [at |-> "waiting", snapshot |-> Load(c, key), old |-> 0])

\* What a request gives: a host left out stays as it is, so does a key that is
\* left out or blank.
HostChoices == {config.host, 0, entered + 1}
KeyChoices == {secret, entered + 1}
Asked(host, key) ==
  LET n == entered + 1
  IN /\ entered < MaxSaves /\ entered' = n
     /\ host \in HostChoices /\ key \in KeyChoices
     /\ paired' = IF host = n /\ key = n THEN paired \cup {n} ELSE paired

PutSiem(host, key) ==
  LET c == ApplySiem(host)
  IN /\ serving /\ Asked(host, key)
     /\ Save(c, key) /\ Reconfigure(c, key)
     /\ UNCHANGED <<serving, engine, alive, switches, crossed, failed, crashes>>

\* The wizard may leave the SIEM out, which saves an empty host, and may be
\* gone through again.
SetupComplete(m, host, key) ==
  LET c == SaveSetup(m, host)
  IN /\ serving /\ Asked(host, key) /\ host \in {0, entered + 1}
     /\ Save(c, key) /\ Reconfigure(c, key)
     /\ UNCHANGED <<serving, engine, alive, switches, crossed, failed, crashes>>

\* A crash in the middle of a save, of a model too: after the secret, or with
\* config.yaml truncated, which write_text does before it writes.
SaveStepsSwapped(host, key) == {<<secret, ApplySiem(host)>>, <<secret, EmptyConfig>>}
SaveSteps(host, key) == {<<key, config>>, <<key, EmptyConfig>>}

Dead ==
  /\ serving' = FALSE /\ swaps' = <<>> /\ alive' = {}

CrashWhileSaving(host, key) ==
  /\ serving /\ Asked(host, key)
  /\ crashes < MaxCrashes /\ crashes' = crashes + 1
  /\ \E s \in SaveSteps(host, key) : secret' = s[1] /\ config' = s[2]
  /\ Dead
  /\ UNCHANGED <<engine, switches, crossed, failed>>

\* PUT /api/settings/ai: the engine there is switches at once, then the
\* choice is saved.
Swapping == swaps # <<>>
PutAi(m) ==
  /\ serving /\ m \notin {engine.model} \cap {config.model}
  /\ switches < MaxSwitches /\ switches' = switches + 1
  /\ engine' = [engine EXCEPT !.model = m]
  /\ config' = ApplyAi(m)
  /\ crossed' = (crossed \/ Swapping)
  /\ UNCHANGED <<secret, serving, alive, swaps, entered, paired, failed, crashes>>

----------------------------------------------------------------------------
\* AppRunner.reconfigure, under _reconfigure_lock.

\* asyncio's lock lets the callers in as they came.
MayEnterAtOnce(i) == TRUE
MayEnterNewest(i) == i = Len(swaps) /\ \A j \in DOMAIN swaps : swaps[j].at = "waiting"
MayEnter(i) == i = 1

Without(i) == SubSeq(swaps, 1, i - 1) \o SubSeq(swaps, i + 1, Len(swaps))

Enter(i) ==
  /\ swaps[i].at = "waiting" /\ MayEnter(i)
  /\ swaps' = [swaps EXCEPT ![i].at = "stopping", ![i].old = engine.number]
  /\ UNCHANGED <<config, secret, serving, engine, alive, entered, switches, paired, crossed,
                 failed, crashes>>

\* The old engine has stopped: the new one takes its place and starts.
Swap(i) ==
  /\ swaps[i].at = "stopping"
  /\ engine' = Build(swaps[i].snapshot, engine.number + 1)
  /\ alive' = (alive \ {swaps[i].old}) \cup {engine.number + 1}
  /\ swaps' = [swaps EXCEPT ![i].at = "starting"]
  /\ failed' = FALSE
  /\ UNCHANGED <<config, secret, serving, entered, switches, paired, crossed, crashes>>

Started(i) ==
  /\ swaps[i].at = "starting" /\ swaps' = Without(i)
  /\ UNCHANGED <<config, secret, serving, engine, alive, entered, switches, paired, crossed,
                 failed, crashes>>

\* Stopping, building or starting raises: the request fails, what it saved
\* stays saved, and the runner stays the one there is, stopped or not.
SwapFails(i) ==
  /\ swaps[i].at # "waiting" /\ swaps' = Without(i)
  /\ alive' \in {alive, alive \ {swaps[i].old}}
  /\ failed' = TRUE
  /\ UNCHANGED <<config, secret, serving, engine, entered, switches, paired, crossed, crashes>>

----------------------------------------------------------------------------

Crash ==
  /\ serving /\ crashes < MaxCrashes /\ crashes' = crashes + 1
  /\ Dead
  /\ UNCHANGED <<config, secret, engine, entered, switches, paired, crossed, failed>>

\* AppRunner.__init__ and _lifespan.
Serve ==
  /\ ~serving /\ serving' = TRUE
  /\ engine' = Build(Load(config, secret), 1) /\ alive' = {1}
  /\ crossed' = FALSE /\ failed' = FALSE
  /\ UNCHANGED <<config, secret, swaps, entered, switches, paired, crashes>>

SettingsInit ==
  /\ config = EmptyConfig /\ secret = 0 /\ serving = FALSE
  /\ engine = Build(Load(config, secret), 0) /\ alive = {} /\ swaps = <<>>
  /\ entered = 0 /\ switches = 0 /\ paired = {} /\ crossed = FALSE /\ failed = FALSE
  /\ crashes = 0

SettingsNext ==
  \/ Crash \/ Serve
  \/ \E host \in HostChoices, key \in KeyChoices :
       \/ PutSiem(host, key) \/ CrashWhileSaving(host, key)
       \/ \E m \in Models : SetupComplete(m, host, key)
  \/ \E m \in Models : PutAi(m)
  \/ \E i \in DOMAIN swaps : Enter(i) \/ Swap(i) \/ Started(i) \/ SwapFails(i)

SettingsSpec == SettingsInit /\ [][SettingsNext]_settingsVars

----------------------------------------------------------------------------
\* Properties.

\* At rest the engine runs what is saved, however many changes waited for each
\* other, wherever a crash cut them and whichever of them failed before the
\* last one; but a model chosen while engines were swapped can be lost to the
\* engine that was built without it, and a last swap that raised leaves the
\* runner there was, until the next save or start.
RunsAsSaved ==
  serving /\ ~Swapping /\ ~failed =>
    /\ engine.host = config.host /\ engine.key = secret
    /\ engine.polls = (config.complete /\ config.host # 0)
    /\ crossed \/ engine.model = config.model

\* Two engines never run at once: they would poll and write the same store
\* (the comment of reconfigure).
OneEngine == \A i, j \in alive : i = j

\* A host that was entered with its key never meets an earlier key, in the
\* files or in the engine: a crash can leave a new key without its host, not a
\* new host without its key, and no queue of swaps joins the host of one save
\* with the key of another.  A host entered alone keeps the key there is.
HostHasItsKey ==
  /\ config.host \in paired => secret >= config.host
  /\ engine.host \in paired => engine.key >= engine.host
=============================================================================
