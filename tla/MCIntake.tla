------------------------------ MODULE MCIntake ------------------------------
(* Small instances of Intake for TLC. *)
EXTENDS Intake

CONSTANTS e1, e2, e3, x, y

\* e2 shares an id with each of e1 and e3, which share none.
MCAliasOf == [e \in Events |-> CASE e = e1 -> {x} [] e = e2 -> {x, y} [] OTHER -> {y}]

=============================================================================
