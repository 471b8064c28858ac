------------------------- MODULE MCResponseChannel -------------------------
(* Small instances of ResponseChannel for TLC. *)
EXTENDS ResponseChannel, TLC

CONSTANTS a1, a2, ann, rob, eve, notify, escalate, c1, c2

\* notify-soc-v1 needs one approval; an escalation, separated, two.
MCRequired == [w \in Workflows |-> IF w = escalate THEN 2 ELSE 1]

Channel(on, allowed) == [enabled |-> on, transport |-> on, allowed |-> allowed]

\* The channel is on; it may be restarted with a shorter allowlist, or off.
AnyConfig   == {Channel(TRUE, Workflows), Channel(TRUE, {notify}),
                Channel(FALSE, Workflows)}
StableConfig == {Channel(TRUE, Workflows)}
ShrinkingConfig == {Channel(TRUE, Workflows), Channel(TRUE, {})}
OnOffConfig == {Channel(TRUE, Workflows), Channel(FALSE, Workflows)}

Symmetry == Permutations(Actions) \cup Permutations(Responders)

=============================================================================
