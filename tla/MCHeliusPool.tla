---------------------------- MODULE MCHeliusPool ----------------------------
(* Instances of HeliusPool for TLC. *)
EXTENDS HeliusPool

CONSTANT Enhanced

\* All tasks of one class, the class the wallet sync uses.
OneClass == [t \in Tasks |-> Enhanced]

=============================================================================
