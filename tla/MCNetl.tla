------------------------------- MODULE MCNetl -------------------------------
(* Instances of Netl for TLC. *)
EXTENDS Netl, TLC

=============================================================================
