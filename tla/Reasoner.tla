------------------------------ MODULE Reasoner ------------------------------
(***************************************************************************)
(* One analysis of a chain by the model: the evidence becomes a prompt,    *)
(* what identifies people and machines becomes tokens before it goes to a  *)
(* cloud provider, and the answer is read back and held against the        *)
(* evidence (src/engine/ai/reasoner.py with payload.py, prompts.py,        *)
(* provider.py and validator.py, src/engine/redact/redactor.py).           *)
(*                                                                         *)
(* A text is a sequence of pieces; a name, a field's key or a reference is *)
(* a sequence of pieces too and may be part of another.  Characters that   *)
(* XML escapes do not occur in them.  Settings and evidence may change     *)
(* while the model is awaited.                                             *)
(***************************************************************************)
EXTENDS Naturals, FiniteSets, Functions, SequencesExt

CONSTANTS
  Pieces,     \* what texts are made of
  Dossiers,   \* what a chain may show: a sequence of alerts, each with its
              \* evidence_ref and its flattened fields, sorted by key
  KindOf,     \* "USER" or "HOST" for the keys that hint at one
  Mails,      \* what the pattern of e-mail addresses finds
  Addresses,  \* what the pattern of IPv4 addresses finds
  Skipped,    \* _SKIP_VALUES, and values too short
  Techniques, \* techniques the retriever returns
  Canonical,  \* a spelling |-> the technique id it normalises to
  AiConfigs,  \* [provider, key, zdr, redaction] of AiConfig
  Caps,       \* field caps a budget may leave to an alert's source
  Cuts        \* where the evidence may be cut off besides

\* Texts, and what tokens and fields are written with.
Texts == Seq(Pieces)
Brackets == {"[", "]"}
Kinds == {"USER", "HOST", "EMAIL", "IP"}
TokenWords == Brackets \cup {"_", "1"} \cup Kinds
Separators == {": ", "\n"}

\* What a model makes up.
Invention == <<"made up">>

VARIABLES
  ai,         \* the configuration of ProviderManager.current
  redacting,  \* TriageReasoner._config.redaction: the one of the start
  dossier,    \* the evidence of the chain in the correlator
  analysis    \* the analysis under way

reasonerVars == <<ai, redacting, dossier, analysis>>

----------------------------------------------------------------------------
\* Texts.

Holds(t, v, i) == i + Len(v) <= Len(t) + 1 /\ SubSeq(t, i, i + Len(v) - 1) = v
Occurs(v, t) == \E i \in DOMAIN t : Holds(t, v, i)

\* str.replace, from left to right.
Substituted(t, old, new) ==
  LET rest[i \in 1..(Len(t) + 1)] ==
        IF i > Len(t) THEN <<>>
        ELSE IF Holds(t, old, i) THEN new \o rest[i + Len(old)]
        ELSE <<t[i]>> \o rest[i + 1]
  IN rest[1]

----------------------------------------------------------------------------
\* The payload and the prompt.

Fields(d) == UNION {ToSet(a.fields) : a \in ToSet(d)}
Keys(d) == {f[1] : f \in Fields(d)}
Refs(d) == {a.ref : a \in ToSet(d)}

\* Values of a pattern are words without brackets, white space or colons, with
\* a "@" or dots that no token has, and none is part of another; techniques are
\* ids; a model makes up what the evidence does not show.
Plain(v) == v \in Texts /\ ToSet(v) \cap (Brackets \cup Separators) = {} /\ ~(ToSet(v) \subseteq TokenWords)
ASSUME ReasonerAssumption ==
  /\ TokenWords \cup Separators \cup {"[truncated]", "made up"} \subseteq Pieces
  /\ Dossiers \subseteq Seq([ref : Texts, fields : Seq(Texts \X Texts)])
  /\ \A k \in DOMAIN KindOf : KindOf[k] \in {"USER", "HOST"}
  /\ IsFiniteSet(Mails) /\ IsFiniteSet(Addresses) /\ \A v \in Mails \cup Addresses : Plain(v)
  /\ \A v \in Mails, w \in Mails \cup Addresses : v # w => ~Occurs(v, w)
  /\ \A v, w \in Addresses : v # w => ~Occurs(v, w)
  /\ Techniques \in Seq(Texts) /\ DOMAIN Canonical \subseteq Texts
  /\ \A t \in DOMAIN Canonical : Canonical[t] \in ToSet(Techniques)
  /\ \A t \in DOMAIN Canonical \cup ToSet(Techniques) : ToSet(t) \cap Brackets = {} /\ t # Invention
  /\ \A d \in Dossiers : Invention \notin Keys(d) \cup Refs(d)
  /\ Caps \subseteq Nat /\ Cuts \subseteq Nat

FieldLine(f) == f[1] \o <<": ">> \o f[2] \o <<"\n">>
FieldLines(a, cap) == FlattenSeq([j \in 1..(IF cap < Len(a.fields) THEN cap ELSE Len(a.fields))
                               |-> FieldLine(a.fields[j])])

\* An alert gives up its last fields when its source is over the budget.
Section(a, cap) == a.ref \o <<"\n">> \o FieldLines(a, cap)
Evidence(d, caps, cut) ==
  LET xml == FlattenSeq([i \in DOMAIN d |-> Section(d[i], caps[i])])
  IN IF cut < Len(xml) THEN SubSeq(xml, 1, cut) \o <<"\n", "[truncated]", "\n">> ELSE xml

Prompt(xml) == xml \o FlattenSeq([i \in DOMAIN Techniques |-> Techniques[i] \o <<"\n">>])

----------------------------------------------------------------------------
\* The redactor: the text so far and the tokens given, the oldest first.

\* Of a number it matters that it differs from others: it is written in strokes.
Token(kind, n) == <<"[", kind, "_">> \o [i \in 1..n |-> "1"] \o <<"]">>
Given(s, kind) == Cardinality({i \in DOMAIN s.tokens : s.tokens[i][2][2] = kind})
TokenFor(s, kind) == Token(kind, Given(s, kind) + 1)

\* Every occurrence of a value becomes the token it was given.
Tokenised(s, v, kind) ==
  IF Occurs(v, s.text)
    THEN [text   |-> Substituted(s.text, v, TokenFor(s, kind)),
          tokens |-> Append(s.tokens, <<v, TokenFor(s, kind)>>)]
    ELSE s

\* for_payload: the values of the fields that name users and hosts.
Extra(d) == {<<f[2], KindOf[f[1]]>> : f \in {f \in Fields(d) : f[1] \in DOMAIN KindOf
                                                              /\ f[2] \notin Skipped}}
Orders(extra) == {s \in [1..Cardinality(extra) -> extra] : IsInjective(s)}
ShortestFirst(extra) ==
  CHOOSE s \in Orders(extra) : \A i, j \in DOMAIN s : i < j => Len(s[i][1]) <= Len(s[j][1])
LongestFirst(extra) ==
  CHOOSE s \in Orders(extra) : \A i, j \in DOMAIN s : i < j => Len(s[i][1]) >= Len(s[j][1])

\* E-mail addresses, the values known, IP addresses.
Each(values, kind) == [i \in 1..Cardinality(values) |-> <<SetToSeq(values)[i], kind>>]
Values(d) == Each(Mails, "EMAIL") \o LongestFirst(Extra(d)) \o Each(Addresses, "IP")
Redact(text, d) ==
  FoldLeft(LAMBDA s, p : Tokenised(s, p[1], p[2]), [text |-> text, tokens |-> <<>>], Values(d))

\* One replacement after the other; to restore, each the other way round.
Replaced(text, pairs) == FoldLeft(LAMBDA t, p : Substituted(t, p[1], p[2]), text, pairs)
Turned(pairs) == [i \in DOMAIN pairs |-> <<pairs[i][2], pairs[i][1]>>]
Restore(text, tokens) == Replaced(text, Turned(tokens))

----------------------------------------------------------------------------
\* The validator.

ConfidenceCap == 40
Normalised(t) == IF t \in DOMAIN Canonical THEN Canonical[t] ELSE t

Grounding(v, d) ==
  LET unverified == (v.fields \ Keys(d)) \cup (v.refs \ Refs(d))
      returned == {Normalised(t) : t \in v.techniques}
  IN [techniques |-> returned \cap ToSet(Techniques),
      rejected   |-> returned \ ToSet(Techniques),
      fields     |-> v.fields \cap Keys(d),
      refs       |-> v.refs \cap Refs(d),
      unverified |-> unverified,
      confidence |-> IF unverified # {} /\ v.confidence > ConfidenceCap
                       THEN ConfidenceCap ELSE v.confidence]

\* restore_verdict, for every text of the verdict.
Restored(v, tokens) ==
  [v EXCEPT !.techniques = {Restore(t, tokens) : t \in @},
            !.fields = {Restore(k, tokens) : k \in @},
            !.refs = {Restore(r, tokens) : r \in @},
            !.says = Restore(@, tokens)]

\* The verdict as it is validated and returned.
CheckedAsAnswered(v, tokens) == v
Checked(v, tokens) == Restored(v, tokens)

----------------------------------------------------------------------------
\* One analysis.

NoAnalysis == [at |-> "idle"]

\* completion_kwargs: a cloud provider needs a key and the acknowledgement of
\* zero data retention.
MayCall(config) == config.provider = "local" \/ (config.key /\ config.zdr)

\* The provider, the evidence and the tokens are taken before the await.
Ask ==
  /\ analysis.at = "idle" /\ MayCall(ai)
  /\ \E caps \in [DOMAIN dossier -> Caps], cut \in Cuts :
       LET prompt == Prompt(Evidence(dossier, caps, cut))
           hides == ai.provider # "local" /\ redacting
           s == IF hides THEN Redact(prompt, dossier) ELSE [text |-> prompt, tokens |-> <<>>]
       IN analysis' = [at |-> "asked", of |-> dossier, hides |-> hides, prompt |-> prompt,
                        sent |-> s.text, tokens |-> s.tokens]
  /\ UNCHANGED <<ai, redacting, dossier>>

\* What a model copies from the text it was sent, and what it makes up.
AsSent(x) == Replaced(x, analysis.tokens)
Legible(S) == {x \in {AsSent(y) : y \in S} : Occurs(x, analysis.sent)}
Citing(S) == {{}, S, S \cup {Invention}}
Spelled == {t \in DOMAIN Canonical : Occurs(AsSent(Canonical[t]), analysis.sent)}

Answer ==
  /\ analysis.at = "asked"
  /\ \E fields \in Citing(Legible(Keys(analysis.of))), refs \in Citing(Legible(Refs(analysis.of))),
        techniques \in Citing({AsSent(t) : t \in Spelled}), confidence \in {30, 90} :
       LET v == [techniques |-> techniques, fields |-> fields, refs |-> refs,
                 says |-> analysis.sent, confidence |-> confidence]
       IN analysis' = [at |-> "answered", of |-> analysis.of, prompt |-> analysis.prompt,
                        honest |-> Invention \notin fields \cup refs,
                        cited |-> [fields |-> Cardinality(fields \ {Invention}),
                                   refs |-> Cardinality(refs \ {Invention})],
                        said |-> confidence,
                        verdict |-> Checked(v, analysis.tokens),
                        validation |-> Grounding(Checked(v, analysis.tokens), analysis.of)]
  /\ UNCHANGED <<ai, redacting, dossier>>

\* The provider fails, the retries are used up, or the document is stored.
End == analysis.at # "idle" /\ analysis' = NoAnalysis /\ UNCHANGED <<ai, redacting, dossier>>

\* ProviderManager.switch: the reasoner keeps the configuration of its start.
\* (Of an answer nothing depends on the settings or the evidence any more.)
SwitchAi ==
  /\ analysis.at # "answered" /\ \E c \in AiConfigs : ai' = c
  /\ UNCHANGED <<redacting, dossier, analysis>>

ReviseEvidence ==
  /\ analysis.at # "answered" /\ \E d \in Dossiers : dossier' = d
  /\ UNCHANGED <<ai, redacting, analysis>>

ReasonerInit ==
  /\ ai \in AiConfigs /\ redacting = ai.redaction
  /\ dossier \in Dossiers /\ analysis = NoAnalysis

ReasonerNext == Ask \/ Answer \/ End \/ SwitchAi \/ ReviseEvidence
ReasonerSpec == ReasonerInit /\ [][ReasonerNext]_reasonerVars

----------------------------------------------------------------------------
\* Properties.

\* Names with brackets, or made of the words of the tokens, would be found again
\* in or around a token.
Names(d) == {v[1] : v \in Extra(d)}
Clash(d) == \E v \in Names(d) : ToSet(v) \cap Brackets # {} \/ ToSet(v) \subseteq TokenWords

\* Names that another kind of value is taken out of, or that are taken out of an
\* address, or that reach over the end of a field, leave a remainder.
Torn(d) ==
  \E v \in Names(d) : \/ ToSet(v) \cap Separators # {}
                      \/ \E w \in Mails \ {v} : Occurs(w, v)
                      \/ \E w \in Addresses \ Names(d) : Occurs(v, w)

\* A text that shows what looks like a token.
Forged(t) == \E kind \in Kinds, n \in 1..Len(t) : Occurs(Token(kind, n), t)

\* What goes to a cloud provider from a reasoner that redacts shows no value
\* the redactor knows, and no remainder of a name: the field that showed a
\* name or an address shows one token (src/tests/test_redaction.py:111).
KnownValues(d) == Mails \cup Names(d) \cup Addresses
OneToken(t, most) == \E kind \in Kinds, n \in 1..most : t = Token(kind, n)
SentInTokens ==
  analysis.at = "asked" /\ analysis.hides /\ ~Clash(analysis.of) =>
    /\ \A v \in KnownValues(analysis.of) : ~Occurs(v, analysis.sent)
    /\ ~Torn(analysis.of) =>
         \A f \in Fields(analysis.of) :
           f[2] \in KnownValues(analysis.of) /\ Occurs(FieldLine(f), analysis.prompt) =>
             LET t == AsSent(f[2])
             IN /\ OneToken(t, Len(analysis.tokens))
                /\ Occurs(<<": ">> \o t \o <<"\n">>, analysis.sent)

\* An answer is read in the words of the evidence it was asked about: what it
\* quotes stands there as it was, whatever it cites from there is verified and
\* keeps its confidence; a field or reference it made up costs it.
AnswerStands ==
  /\ analysis.at = "answered" /\ ~Clash(analysis.of)
  /\ \A t \in Keys(analysis.of) \cup Refs(analysis.of) \cup {analysis.prompt} : ~Forged(t)
  =>
    /\ analysis.verdict.says = analysis.prompt
    /\ Cardinality(analysis.validation.fields) = analysis.cited.fields
    /\ Cardinality(analysis.validation.refs) = analysis.cited.refs
    /\ analysis.validation.rejected \subseteq {Invention}
    /\ analysis.validation.confidence =
         IF analysis.honest \/ analysis.said < ConfidenceCap THEN analysis.said ELSE ConfidenceCap
=============================================================================
