------------------------------ MODULE MCEngine ------------------------------
(***************************************************************************)
(* The correlator with the services around it: the store's transactions,   *)
(* triage, one analysis of it, the managed settings and the v1 poller.     *)
(* They meet in what their modules take as input, so they are checked side *)
(* by side: part is the one that moves in a behaviour, the others stay as  *)
(* they start.                                                             *)
(***************************************************************************)
EXTENDS MCChains, Store, Triage, Reasoner, Settings, Poller, TLC

\* The .cfg gives the instances of the store (three writes, of which one
\* records two decisions), of triage (two chains, of which one is revised, a
\* mirror with room for one), of the settings (two connections, two models) and
\* of the poller: a tie that fills more than a page, a chain that ends early.
SetupChoices == {<<"surfaced", TRUE>>, <<"all", FALSE>>}
EvidenceBounds == <<2, 1>>
HitTimes == <<1, 2, 2, 4>>

\* The reasoner: names that are parts of each other, of keys, of references and
\* of the tokens; shortened and cut evidence.
UserKey == <<"user", ".name">>
HostKey == <<"host", ".name">>
CommandKey == <<"process", ".cmd">>
Mail == <<"ali", "b", "@corp">>
Address == <<"10.0.0.1">>
RefTo(connection, n) == <<"SRC:", connection, ":", n>>
Alert(ref, fields) == [ref |-> ref, fields |-> fields]
TwoAlerts ==
  <<Alert(RefTo("hq", "1"), <<<<UserKey, <<"ali", "b">>>>,
                              <<CommandKey, <<"net", " ", "ali", "b", " ", "ali">>>>>>),
    Alert(RefTo("ali", "2"), <<<<HostKey, <<"ali">>>>,
                               <<CommandKey, Mail \o <<" ">> \o Address>>>>)>>
AddressAsHost ==
  <<Alert(RefTo("hq", "1"), <<<<HostKey, Address>>, <<UserKey, <<"user">>>>,
                              <<CommandKey, <<"user">> \o Address>>>>)>>
HostNamedHost ==
  <<Alert(RefTo("hq", "1"), <<<<HostKey, <<"HOST">>>>, <<UserKey, Mail>>>>)>>
AllPieces == STRING
DossierSet == {TwoAlerts, AddressAsHost, HostNamedHost}
KindMap == (UserKey :> "USER") @@ (HostKey :> "HOST")
MailSet == {Mail}
AddressSet == {Address}
SkippedSet == {<<"-">>}
Returned == <<<<"T10">>>>
Spellings == (<<"t10">> :> <<"T10">>) @@ (<<"T10">> :> <<"T10">>)
AiChoices ==
  {[provider |-> p[1], key |-> p[2], zdr |-> p[3], redaction |-> p[4]] :
     p \in {<<"local", FALSE, TRUE, TRUE>>, <<"cloud", TRUE, TRUE, TRUE>>,
            <<"cloud", TRUE, TRUE, FALSE>>, <<"cloud", TRUE, FALSE, TRUE>>}}
VARIABLE part

EngineVars == <<vars, storeVars, triageVars, reasonerVars, settingsVars, pollerVars, part>>

\* The v1 poller's cycle is tried on the histories it matters to (entities that
\* merge, a chain that ends early), the others without it.
EngineInit ==
  /\ Init /\ StoreInit /\ TriageInit /\ ReasonerInit /\ SettingsInit /\ PollerInit
  /\ part \in {"chains", "store", "triage", "reasoner", "settings", "poller"}
  /\ part # "chains" => history = Bridge /\ grace = 0 /\ polls = 0
  /\ IF polls = 0 THEN polled = {} /\ history # Fading
     ELSE history \in {TwoNames, Fading} /\ grace = 0
  /\ part # "triage" => scope = "all"
  /\ part # "reasoner" => ai.provider = "local" /\ dossier = TwoAlerts

EngineNext ==
  /\ UNCHANGED part
  /\ \/ /\ part = "chains" /\ Next
        /\ UNCHANGED <<storeVars, triageVars, reasonerVars, settingsVars, pollerVars>>
     \/ /\ part = "store" /\ StoreNext
        /\ UNCHANGED <<vars, triageVars, reasonerVars, settingsVars, pollerVars>>
     \/ /\ part = "triage" /\ TriageNext
        /\ UNCHANGED <<vars, storeVars, reasonerVars, settingsVars, pollerVars>>
     \/ /\ part = "reasoner" /\ ReasonerNext
        /\ UNCHANGED <<vars, storeVars, triageVars, settingsVars, pollerVars>>
     \/ /\ part = "settings" /\ SettingsNext
        /\ UNCHANGED <<vars, storeVars, triageVars, reasonerVars, pollerVars>>
     \/ /\ part = "poller" /\ PollerNext
        /\ UNCHANGED <<vars, storeVars, triageVars, reasonerVars, settingsVars>>

\* The fairness of Chains and of Triage, for the part that moves: weak
\* fairness, with the enabling conditions written out.
CycleDue == part = "chains" \/ (part = "triage" /\ \E c \in Investigated : evidence[c] > 0)
AnyCycle == Cycle \/ \E w \in Cycles : Step(w)
WorkDue == part = "chains" /\ WorkLeft

EngineSpec ==
  /\ EngineInit /\ [][EngineNext]_EngineVars
  /\ []<>~CycleDue \/ []<><<AnyCycle>>_EngineVars
  /\ []<>~WorkDue \/ []<><<Work>>_EngineVars
=============================================================================
