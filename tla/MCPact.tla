------------------------------- MODULE MCPact -------------------------------
(* Instances of Pact for TLC. *)
EXTENDS Pact, TLC

CONSTANTS p, q

One   == {p}
Two   == {p, q}

AnyProcess == Permutations(Procs)

=============================================================================
