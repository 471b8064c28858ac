---------------------------- MODULE DeliveryOnce ----------------------------
(***************************************************************************)
(* What the response channel promises of each action, whatever happens to  *)
(* the process, the store or the network: a request leaves only after the  *)
(* action was authorised, never after it was withdrawn, and at most once;  *)
(* an action that was taken for sending is settled, never authorised       *)
(* again (docs/v2/logic-apps-contract.md, "never blind retries").          *)
(***************************************************************************)
EXTENDS Naturals

CONSTANT Actions

VARIABLES stage, sent

vars == <<stage, sent>>

Stages == {"open", "authorised", "taken", "settled", "withdrawn"}

Init ==
  /\ stage = [a \in Actions |-> "open"]
  /\ sent = [a \in Actions |-> 0]

Same(a) == stage'[a] = stage[a] /\ sent'[a] = sent[a]

Authorise(a) ==
  stage[a] = "open" /\ stage'[a] = "authorised" /\ sent'[a] = sent[a]

Withdraw(a) ==
  stage[a] \in {"open", "authorised"} /\ stage'[a] = "withdrawn" /\ sent'[a] = sent[a]

Take(a) ==
  stage[a] = "authorised" /\ stage'[a] = "taken" /\ sent'[a] = sent[a]

Transmit(a) ==
  stage[a] = "taken" /\ sent[a] = 0 /\ stage'[a] = "taken" /\ sent'[a] = 1

Settle(a) ==
  stage[a] = "taken" /\ stage'[a] = "settled" /\ sent'[a] = sent[a]

\* One step may move several actions: a claim closes the rows it passes over.
Next ==
  /\ stage' \in [Actions -> Stages] /\ sent' \in [Actions -> 0..1]
  /\ \A a \in Actions : \/ Same(a) \/ Authorise(a) \/ Withdraw(a)
                        \/ Take(a) \/ Transmit(a) \/ Settle(a)

Spec == Init /\ [][Next]_vars

=============================================================================
